---------------------------- MODULE Spec2Model ----------------------------
(***************************************************************************)
(* A model of the history analysis engine of k8au-shell-analyzer:          *)
(* internal/analyzer/shell_analysis.go and internal/analyzer/analyzer.go.  *)
(*                                                                         *)
(* Go strings are modelled as sequences of one-character strings, so that  *)
(* strings.Contains, strings.HasPrefix, strings.Fields and the regular     *)
(* expressions of analyzeCommandPattern are computed, not assumed.         *)
(* float64 quotients are kept as records [num, den] and compared by cross  *)
(* multiplication.  Go's randomised map iteration order and the unstable   *)
(* sort.Slice are modelled as a choice among all the orders they allow.    *)
(***************************************************************************)
EXTENDS Integers, Sequences, FiniteSets, TLC

(***************************************************************************)
(* Bounds of the model.                                                    *)
(***************************************************************************)
\* the number of hour roll-overs of the wall clock during one run
MaxTicks == 1
\* the length of the short histories given to the timeline curator
MaxShort == 2
\* the length of the long histories given to the timeline curator
MaxLong == 17
\* the number of lines of the config file that is read first
MaxConfigLines == 2
\* the largest number of commands the model counts for one hour
MaxCount == 2
\* the largest number of slides in a reply of the narrative service
MaxSections == 3
\* the number of ShellData messages the interface is sent
MaxShellData == 2

(***************************************************************************)
(* Program constants.                                                      *)
(***************************************************************************)
\* analyzer.go:170  if len(timelineData) >= 15
TimelineCap == 15
\* shell_analysis.go:412  i < 10
TopInstalled == 10
\* shell_analysis.go:270  i < 3
TopPeaks == 3
\* time.Time.Hour() is in 0..23
HoursPerDay == 24
\* render.go:161  strings.Repeat("░", 20-bars)
BarWidth == 20

(***************************************************************************)
(* Strings.                                                                *)
(***************************************************************************)
Range(s) == {s[i] : i \in DOMAIN s}

\* strings.HasPrefix(s, prefix)
HasPrefix(s, prefix) ==
    /\ Len(prefix) <= Len(s)
    /\ SubSeq(s, 1, Len(prefix)) = prefix

\* strings.Contains(s, substr); the empty string is contained in every string
Contains(s, substr) ==
    \E i \in 0..(Len(s) - Len(substr)) : SubSeq(s, i + 1, i + Len(substr)) = substr

\* strings.ContainsAny(s, chars)
ContainsAny(s, chars) == \E i \in DOMAIN s : s[i] \in Range(chars)

\* unicode.IsSpace on the characters the histories hold
IsSpace(c) == c \in {" ", "\t"}

\* strings.Fields(s): the maximal runs of non-space characters, in order
RECURSIVE FieldsFrom(_, _, _)
FieldsFrom(s, i, cur) ==
    IF i > Len(s)
    THEN IF cur = <<>> THEN <<>> ELSE <<cur>>
    ELSE IF IsSpace(s[i])
         THEN IF cur = <<>>
              THEN FieldsFrom(s, i + 1, <<>>)
              ELSE <<cur>> \o FieldsFrom(s, i + 1, <<>>)
         ELSE FieldsFrom(s, i + 1, Append(cur, s[i]))

Fields(s) == FieldsFrom(s, 1, <<>>)

\* unicode.ToUpper on ASCII letters
ToUpper(c) ==
    CASE c = "a" -> "A" [] c = "b" -> "B" [] c = "c" -> "C" [] c = "d" -> "D"
      [] c = "e" -> "E" [] c = "f" -> "F" [] c = "g" -> "G" [] c = "h" -> "H"
      [] c = "i" -> "I" [] c = "j" -> "J" [] c = "k" -> "K" [] c = "l" -> "L"
      [] c = "m" -> "M" [] c = "n" -> "N" [] c = "o" -> "O" [] c = "p" -> "P"
      [] c = "q" -> "Q" [] c = "r" -> "R" [] c = "s" -> "S" [] c = "t" -> "T"
      [] c = "u" -> "U" [] c = "v" -> "V" [] c = "w" -> "W" [] c = "x" -> "X"
      [] c = "y" -> "Y" [] c = "z" -> "Z" [] OTHER -> c

\* strings.Title(s): the first letter of every word in upper case
Title(s) ==
    [i \in DOMAIN s |->
        IF i = 1 \/ IsSpace(s[i - 1]) THEN ToUpper(s[i]) ELSE s[i]]

\* fmt.Sprintf("%s Developer", strings.Title(primaryLang))
RoleOf(primaryLang) == Title(primaryLang) \o <<" ", "D", "e", "v", "e", "l", "o", "p", "e", "r">>

(***************************************************************************)
(* Tables of shell_analysis.go.                                            *)
(***************************************************************************)
\* AnalyzeShells: the keys of shellPaths
Shells == {"bash", "zsh", "fish"}

\* getInstalledLanguages: the keys of the probe table
languages == {
    <<"p", "y", "t", "h", "o", "n">>, <<"p", "y", "t", "h", "o", "n", "3">>, <<"n", "o", "d", "e">>, <<"g", "o">>, <<"j", "a", "v", "a">>, <<"r", "u", "b", "y">>, <<"p", "h", "p">>, <<"r", "u", "s", "t">>,
    <<"p", "e", "r", "l">>, <<"s", "c", "a", "l", "a">>, <<"k", "o", "t", "l", "i", "n">>, <<"s", "w", "i", "f", "t">>, <<"r">>, <<"j", "u", "l", "i", "a">>, <<"h", "a", "s", "k", "e", "l", "l">>,
    <<"e", "l", "i", "x", "i", "r">>, <<"e", "r", "l", "a", "n", "g">>, <<"c", "l", "a", "n", "g">>, <<"g", "c", "c">>, <<"d", "o", "t", "n", "e", "t">>, <<"l", "u", "a">>, <<"o", "c", "a", "m", "l">>,
    <<"d", "a", "r", "t">>, <<"z", "i", "g">>, <<"n", "i", "m">>,
    <<"m", "a", "v", "e", "n">>, <<"g", "r", "a", "d", "l", "e">>, <<"n", "p", "m">>, <<"y", "a", "r", "n">>, <<"p", "n", "p", "m">>, <<"p", "i", "p">>, <<"c", "a", "r", "g", "o">>,
    <<"c", "o", "m", "p", "o", "s", "e", "r">>, <<"b", "u", "n", "d", "l", "e", "r">>,
    <<"d", "o", "c", "k", "e", "r">>, <<"k", "u", "b", "e", "c", "t", "l">>, <<"t", "e", "r", "r", "a", "f", "o", "r", "m">>, <<"a", "n", "s", "i", "b", "l", "e">>, <<"v", "a", "g", "r", "a", "n", "t">>, <<"h", "e", "l", "m">>,
    <<"a", "w", "s">>, <<"g", "c", "l", "o", "u", "d">>, <<"a", "z", "u", "r", "e">>,
    <<"g", "i", "t">>, <<"s", "v", "n">>, <<"m", "e", "r", "c", "u", "r", "i", "a", "l">>,
    <<"m", "y", "s", "q", "l">>, <<"p", "s", "q", "l">>, <<"m", "o", "n", "g", "o", "d", "b">>, <<"r", "e", "d", "i", "s">>,
    <<"n", "g", "i", "n", "x">>, <<"a", "p", "a", "c", "h", "e", "2">>, <<"c", "u", "r", "l">>, <<"w", "g", "e", "t">>,
    <<"v", "i", "m">>, <<"n", "v", "i", "m">>, <<"e", "m", "a", "c", "s">>, <<"c", "o", "d", "e">>,
    <<"z", "s", "h">>, <<"b", "a", "s", "h">>, <<"f", "i", "s", "h">>, <<"t", "m", "u", "x">> }

\* getPackageManager: managers[lang], the empty string for a missing key
getPackageManager(lang) ==
    CASE lang = <<"p", "y", "t", "h", "o", "n">> -> <<"p", "i", "p">>
      [] lang = <<"n", "o", "d", "e">> -> <<"n", "p", "m">>
      [] lang = <<"g", "o">> -> <<"g", "o", " ", "g", "e", "t">>
      [] lang = <<"r", "u", "s", "t">> -> <<"c", "a", "r", "g", "o">>
      [] lang = <<"r", "u", "b", "y">> -> <<"g", "e", "m">>
      [] lang = <<"p", "h", "p">> -> <<"c", "o", "m", "p", "o", "s", "e", "r">>
      [] OTHER -> <<>>

\* analyzeCommands: tools
tools == <<<<"g", "i", "t">>, <<"d", "o", "c", "k", "e", "r">>, <<"k", "u", "b", "e", "c", "t", "l">>, <<"t", "e", "r", "r", "a", "f", "o", "r", "m">>, <<"a", "n", "s", "i", "b", "l", "e">>, <<"m", "a", "k", "e">>>>

\* analyzeToolUsage: editors
editors == <<<<"v", "i", "m">>, <<"n", "v", "i", "m">>, <<"e", "m", "a", "c", "s">>, <<"c", "o", "d", "e">>, <<"n", "a", "n", "o">>>>

\* analyzeToolUsage: buildTools
buildTools == <<<<"m", "a", "k", "e">>, <<"m", "a", "v", "e", "n">>, <<"g", "r", "a", "d", "l", "e">>, <<"n", "p", "m">>, <<"y", "a", "r", "n">>, <<"p", "i", "p">>, <<"c", "a", "r", "g", "o">>,
                <<"c", "o", "m", "p", "o", "s", "e", "r">>, <<"b", "u", "n", "d", "l", "e", "r">>>>

\* categorizeCommand: patterns
patterns == [
    development |-> <<<<"g", "i", "t">>, <<"d", "o", "c", "k", "e", "r">>, <<"n", "p", "m">>, <<"g", "o">>, <<"p", "y", "t", "h", "o", "n">>>>,
    system |-> <<<<"s", "u", "d", "o">>, <<"s", "y", "s", "t", "e", "m", "c", "t", "l">>, <<"p", "s">>, <<"t", "o", "p">>>>,
    file |-> <<<<"l", "s">>, <<"c", "d">>, <<"c", "p">>, <<"m", "v">>, <<"r", "m">>>> ]

\* analyzeCommandPattern: patternMap; each regular expression is an
\* alternation of literals matched anywhere in the command
patternMap == [
    git_workflow |-> {<<"g", "i", "t", " ", "c", "o", "m", "m", "i", "t">>, <<"g", "i", "t", " ", "p", "u", "s", "h">>, <<"g", "i", "t", " ", "p", "u", "l", "l">>, <<"g", "i", "t", " ", "m", "e", "r", "g", "e">>},
    build |-> {<<"m", "a", "k", "e">>, <<"b", "u", "i", "l", "d">>, <<"c", "o", "m", "p", "i", "l", "e">>},
    deploy |-> {<<"d", "e", "p", "l", "o", "y">>, <<"k", "u", "b", "e", "c", "t", "l">>, <<"d", "o", "c", "k", "e", "r">>},
    test |-> {<<"t", "e", "s", "t">>, <<"s", "p", "e", "c">>, <<"p", "y", "t", "e", "s", "t">>} ]

\* regexp.MatchString for the expressions of patternMap
MatchString(regex, cmd) == \E lit \in regex : Contains(cmd, lit)

(***************************************************************************)
(* Helpers for Go maps and slices.                                         *)
(***************************************************************************)
\* every order in which `range` may enumerate the key set S
RECURSIVE Perms(_)
Perms(S) ==
    IF S = {} THEN {<<>>}
    ELSE UNION {{<<x>> \o p : p \in Perms(S \ {x})} : x \in S}

\* a float64 quotient float64(n) / float64(d), d > 0
Ratio(n, d) == [num |-> n, den |-> d]

\* the order of two float64 quotients
RatioLeq(a, b) == a.num * b.den <= b.num * a.den

(***************************************************************************)
(* Source readers and the command classifier (shell_analysis.go).          *)
(***************************************************************************)
\* cleanHistoryLine: the last whitespace-separated field of the line
cleanHistoryLine(line) ==
    LET parts == Fields(line)
    IN  IF Len(parts) > 0 THEN parts[Len(parts)] ELSE <<>>

\* a categorisation that looks for the prefixes anywhere in the command
RECURSIVE categorizeByContains(_, _)
categorizeByContains(cmd, order) ==
    IF order = <<>> THEN <<>>
    ELSE LET category == Head(order)
             hit == \E i \in DOMAIN patterns[category] :
                        Contains(cmd, patterns[category][i])
         IN  (IF hit THEN <<category>> ELSE <<>>)
                 \o categorizeByContains(cmd, Tail(order))

\* categorizeCommand, with the map `patterns` enumerated in `order`
RECURSIVE categorizeCommand(_, _)
categorizeCommand(cmd, order) ==
    IF order = <<>> THEN <<>>
    ELSE LET category == Head(order)
             hit == \E i \in DOMAIN patterns[category] :
                        HasPrefix(cmd, patterns[category][i])
         IN  (IF hit THEN <<category>> ELSE <<>>)
                 \o categorizeCommand(cmd, Tail(order))

\* the category lists categorizeCommand can return for cmd
Categorizations(cmd) ==
    {categorizeCommand(cmd, order) : order \in Perms(DOMAIN patterns)}

\* the commands readHistory keeps: the cleaned, non-empty lines in file order
RECURSIVE KeptCommands(_)
KeptCommands(lines) ==
    IF lines = <<>> THEN <<>>
    ELSE LET cmd == cleanHistoryLine(Head(lines))
         IN  (IF cmd # <<>> THEN <<cmd>> ELSE <<>>) \o KeptCommands(Tail(lines))

\* the hour roll-overs time.Now() can show while n entries are stamped:
\* offs[i] roll-overs have happened when entry i is stamped
TickSeqs(n, budget) ==
    {offs \in [1..n -> 0..budget] : \A i \in 1..(n - 1) : offs[i] <= offs[i + 1]}

\* the category lists of the entries of cmds, one choice per entry
RECURSIVE CategorySeqs(_)
CategorySeqs(cmds) ==
    IF cmds = <<>> THEN {<<>>}
    ELSE {<<c>> \o rest : c \in Categorizations(Head(cmds)),
                          rest \in CategorySeqs(Tail(cmds))}

\* readHistory on an opened file: the entries it can return when the clock
\* shows hour `hour`, `nano` calls of time.Now() have been made and at most
\* `budget` roll-overs are left
readHistory(lines, hour, nano, budget) ==
    LET cmds == KeptCommands(lines)
    IN  {[i \in DOMAIN cmds |->
            [Command |-> cmds[i],
             Timestamp |-> [Hour |-> (hour + offs[i]) % HoursPerDay,
                            Nano |-> nano + i],
             Categories |-> cats[i]]] :
         offs \in TickSeqs(Len(cmds), budget), cats \in CategorySeqs(cmds)}

\* getInstalledLanguages: the key sets it can return when the version probes
\* of `probed` succeed; all counts are 0, so the sort keeps any TopInstalled
getInstalledLanguages(probed) ==
    IF Cardinality(probed) <= TopInstalled THEN {probed}
    ELSE {S \in SUBSET probed : Cardinality(S) = TopInstalled}

\* analyzeCommands 117-118, analyzeToolUsage 187-188: the language test
LangMatch(cmd, lang) ==
    Contains(cmd, lang) \/ Contains(cmd, getPackageManager(lang))

\* analyzeCommands 126, analyzeToolUsage 196, 204: the tool test, where
\* checkToolInstalled(tool) is exec.LookPath finding tool in `onPath`
ToolMatch(cmd, tool, onPath) == HasPrefix(cmd, tool) /\ tool \in onPath

\* a Go map[string]int filled by map[k]++: a key is present once it has
\* been incremented
UsageMap(counts) == [k \in {k \in DOMAIN counts : counts[k] > 0} |-> counts[k]]

\* a count that is incremented once per test that the command passes
LangCountPerTest(entries, lang) ==
    Cardinality({i \in DOMAIN entries : Contains(entries[i].Command, lang)})
        + Cardinality({i \in DOMAIN entries :
                        Contains(entries[i].Command, getPackageManager(lang))})

\* the number of entries whose command passes the language test for lang
LangCount(entries, lang) ==
    Cardinality({i \in DOMAIN entries : LangMatch(entries[i].Command, lang)})

\* the number of entries whose command passes the tool test for tool
ToolCount(entries, tool, onPath) ==
    Cardinality({i \in DOMAIN entries : ToolMatch(entries[i].Command, tool, onPath)})

\* analyzeCommands: langUsage after the loop over entries
LangUsage(entries, installedLangs) ==
    UsageMap([lang \in installedLangs |-> LangCount(entries, lang)])

\* analyzeCommands: toolUsage after the loop over entries
DevToolUsage(entries, onPath) ==
    UsageMap([tool \in Range(tools) |-> ToolCount(entries, tool, onPath)])

\* analyzeCommands: timeOfDay after the loop over entries
TimeOfDay(entries) ==
    LET count(h) == Cardinality({i \in DOMAIN entries : entries[i].Timestamp.Hour = h})
    IN  [h \in {entries[i].Timestamp.Hour : i \in DOMAIN entries} |-> count(h)]

\* analyzeCommandPattern over all entries: commandPatterns after the loop
CommandPatterns(entries) ==
    UsageMap([pattern \in DOMAIN patternMap |->
                Cardinality({i \in DOMAIN entries :
                    MatchString(patternMap[pattern], entries[i].Command)})])

\* a Go map read: the zero value for a missing key
Get(m, k) == IF k \in DOMAIN m THEN m[k] ELSE 0

\* getMostUsed: the (key, ok) pairs it can return; the first key of the
\* enumeration that holds the greatest value wins
getMostUsed(usage) ==
    IF \E k \in DOMAIN usage : usage[k] > 0
    THEN {[key |-> k, ok |-> TRUE] :
            k \in {k \in DOMAIN usage : \A j \in DOMAIN usage : usage[j] <= usage[k]}}
    ELSE {[key |-> <<>>, ok |-> FALSE]}

\* a sort that leaves the hours in the order of the map enumeration
AnyOrder(hours, timeOfDay) == Len(hours) = Cardinality(DOMAIN timeOfDay)

\* sort.Slice with less = count greater: hours is in an order it can leave
SortedByCount(hours, timeOfDay) ==
    \A i \in 1..(Len(hours) - 1) : timeOfDay[hours[i]] >= timeOfDay[hours[i + 1]]

\* getPeakHours: the lists it can return; hours of equal count come in the
\* order of the map enumeration and of the unstable sort
getPeakHours(timeOfDay) ==
    {SubSeq(hours, 1, IF Len(hours) < TopPeaks THEN Len(hours) ELSE TopPeaks) :
        hours \in {p \in Perms(DOMAIN timeOfDay) : SortedByCount(p, timeOfDay)}}

\* calculateProductivityMetrics 292-293: the numerator of the workflow score
WorkflowCount(commandPatterns) ==
    Get(commandPatterns, "git_workflow") + Get(commandPatterns, "build")
        + Get(commandPatterns, "deploy") + Get(commandPatterns, "test")

\* calculateProductivityMetrics
calculateProductivityMetrics(entries, commandPatterns) ==
    LET totalCommands == Len(entries)
        uniqueCommands == {entries[i].Command : i \in DOMAIN entries}
    IN  IF totalCommands = 0 THEN <<>>
        ELSE [metric \in {"Command Variety", "Workflow Complexity"} |->
                IF metric = "Command Variety"
                THEN Ratio(Cardinality(uniqueCommands), totalCommands)
                ELSE Ratio(WorkflowCount(commandPatterns), totalCommands)]

\* analyzeCommands 151-160: Proficiency after the two loops; a tool's
\* quotient is written after, and over, a language's of the same name
Proficiency(old, langUsage, toolUsage, totalCommands) ==
    IF totalCommands > 0
    THEN [k \in DOMAIN old \cup DOMAIN langUsage \cup DOMAIN toolUsage |->
            IF k \in DOMAIN toolUsage THEN Ratio(toolUsage[k], totalCommands)
            ELSE IF k \in DOMAIN langUsage THEN Ratio(langUsage[k], totalCommands)
            ELSE old[k]]
    ELSE old

\* analyzeCommands 143-149: the TechStack slices the loop over the map
\* installedLangs can build
TechStacks(installedLangs, langUsage) ==
    Perms({lang \in installedLangs : Get(langUsage, lang) > 0})

\* a tally that holds a key, with the count 0, for every installed identifier
analyzeToolUsageZeroed(entries, installedLangs, onPath) ==
    [Editors |-> [tool \in Range(editors) \cap onPath |-> ToolCount(entries, tool, onPath)],
     Languages |-> [lang \in installedLangs |-> LangCount(entries, lang)],
     BuildTools |-> [tool \in Range(buildTools) \cap onPath |->
                        ToolCount(entries, tool, onPath)]]

\* analyzeToolUsage: the ToolUsage of entries
analyzeToolUsage(entries, installedLangs, onPath) ==
    [Editors |-> UsageMap([tool \in Range(editors) |-> ToolCount(entries, tool, onPath)]),
     Languages |-> UsageMap([lang \in installedLangs |-> LangCount(entries, lang)]),
     BuildTools |-> UsageMap([tool \in Range(buildTools) |->
                                ToolCount(entries, tool, onPath)])]

(***************************************************************************)
(* Paths and the config parser (shell_analysis.go 420-504).                *)
(*                                                                         *)
(* A path is the sequence of its components: "~/.bashrc" is                *)
(* <<"~", ".bashrc">>.  The content of a config file is the sequence of    *)
(* the lines bufio.Scanner yields for it.                                  *)
(***************************************************************************)
\* AnalyzeShells: shellPaths
shellPaths == [
    bash |-> <<"~", ".bash_history">>,
    zsh |-> <<"~", ".zsh_history">>,
    fish |-> <<"~", ".local", "share", "fish", "fish_history">> ]

\* analyzeShellConfigs: configPaths
configPaths == [
    bash |-> << <<"~", ".bashrc">>, <<"~", ".bash_profile">>, <<"~", ".bash_aliases">> >>,
    zsh |-> << <<"~", ".zshrc">>, <<"~", ".zsh_plugins">>, <<"~", ".zprofile">> >>,
    fish |-> << <<"~", ".config", "fish", "config.fish">>,
                <<"~", ".config", "fish", "functions">>,
                <<"~", ".config", "fish", "conf.d">> >> ]

\* os.UserHomeDir: the home directory, or the error
HomeDir == [ok |-> TRUE, dir |-> <<"home", "u">>]
NoHomeDir == [ok |-> FALSE]

\* expandPath(path), where os.UserHomeDir returns homeDir
expandPath(path, homeDir) ==
    IF path # <<>> /\ Head(path) = "~"
    THEN IF ~homeDir.ok THEN path ELSE homeDir.dir \o Tail(path)
    ELSE path

\* os.Stat fails: nothing is at the path
NoConfig == [exists |-> FALSE]

\* a regular file with the lines `lines`
ConfigFile(lines) == [exists |-> TRUE, dir |-> FALSE, lines |-> lines]

\* an empty directory: os.Stat succeeds, os.ReadFile fails and the content
\* is the empty string
ConfigDir == [exists |-> TRUE, dir |-> TRUE, lines |-> <<>>]

\* os.Stat(path) on the file system fs, a map from absolute paths; a path
\* that starts with "~" is relative to a working directory that holds no
\* directory of that name
Stat(path, fs) == IF path \in DOMAIN fs THEN fs[path] ELSE NoConfig

\* strings.TrimPrefix(s, prefix)
TrimPrefix(s, prefix) ==
    IF HasPrefix(s, prefix) THEN SubSeq(s, Len(prefix) + 1, Len(s)) ELSE s

\* strings.SplitN(s, "=", 2): s cut at its first "="
SplitN2(s) ==
    IF \E i \in DOMAIN s : s[i] = "="
    THEN LET i == CHOOSE i \in DOMAIN s : s[i] = "=" /\ \A j \in 1..(i - 1) : s[j] # "="
         IN  <<SubSeq(s, 1, i - 1), SubSeq(s, i + 1, Len(s))>>
    ELSE <<s>>

\* strings.TrimLeft(s, cutset)
RECURSIVE TrimLeft(_, _)
TrimLeft(s, cutset) ==
    IF s # <<>> /\ Head(s) \in cutset THEN TrimLeft(Tail(s), cutset) ELSE s

\* strings.TrimRight(s, cutset)
RECURSIVE TrimRight(_, _)
TrimRight(s, cutset) ==
    IF s # <<>> /\ s[Len(s)] \in cutset
    THEN TrimRight(SubSeq(s, 1, Len(s) - 1), cutset)
    ELSE s

\* a parser that leaves the value as it is written
KeepQuotes(s, cutset) == s

\* strings.Trim(s, cutset): every leading and every trailing character of
\* cutset is removed
Trim(s, cutset) == TrimRight(TrimLeft(s, cutset), cutset)

\* strings.TrimSpace(s)
TrimSpace(s) == Trim(s, {" ", "\t"})

\* the cutset of parseShellConfig 489, 499
Quotes == {"'", "\""}

\* a map that keeps the value a key was first given
PutIfAbsent(m, k, v) ==
    [x \in DOMAIN m \cup {k} |-> IF x \in DOMAIN m THEN m[x] ELSE v]

\* a Go map write m[k] = v
Put(m, k, v) == [x \in DOMAIN m \cup {k} |-> IF x = k THEN v ELSE m[x]]

\* parseShellConfig 485-492, 495-502: the map after `line`, for the
\* declarations that start with `keyword`
Declare(m, line, keyword) ==
    IF HasPrefix(line, keyword)
    THEN LET parts == SplitN2(TrimPrefix(line, keyword))
         IN  IF Len(parts) = 2
             THEN Put(m, TrimSpace(parts[1]), Trim(TrimSpace(parts[2]), Quotes))
             ELSE m
    ELSE m

\* parseShellConfig: the body of the loop for one line
parseLine(config, line) ==
    [config EXCEPT
        !.Aliases = Declare(@, line, <<"a", "l", "i", "a", "s", " ">>),
        !.Environment = Declare(@, line, <<"e", "x", "p", "o", "r", "t", " ">>)]

\* parseShellConfig(content, &config)
RECURSIVE parseShellConfig(_, _)
parseShellConfig(content, config) ==
    IF content = <<>> THEN config
    ELSE parseShellConfig(Tail(content), parseLine(config, Head(content)))

\* analyzeShellConfigs 450-455
EmptyShellConfig ==
    [ConfigFiles |-> <<>>, Aliases |-> <<>>, Environment |-> <<>>, Plugins |-> <<>>]

\* analyzeShellConfigs 458-471: the loop over configPaths[shell], from
\* index i on
RECURSIVE ReadConfigs(_, _, _, _, _)
ReadConfigs(config, paths, i, homeDir, fs) ==
    IF i > Len(paths) THEN config
    ELSE LET expandedPath == expandPath(paths[i], homeDir)
             info == Stat(expandedPath, fs)
         IN  IF info.exists
             THEN ReadConfigs(
                    parseShellConfig(
                        info.lines,
                        [config EXCEPT !.ConfigFiles =
                            Put(@, paths[i], [Path |-> expandedPath,
                                              Content |-> info.lines])]),
                    paths, i + 1, homeDir, fs)
             ELSE ReadConfigs(config, paths, i + 1, homeDir, fs)

\* detectPlugins: the directories of the model hold no plugin manager and
\* no plugin, so that no PluginInfo is appended
detectPlugins(shell, config) == config

\* analyzeShellConfigs(shell)
analyzeShellConfigs(shell, homeDir, fs) ==
    detectPlugins(shell, ReadConfigs(EmptyShellConfig, configPaths[shell], 1, homeDir, fs))

(***************************************************************************)
(* The timeline curator (analyzer.go).                                     *)
(***************************************************************************)
\* isInterestingCommand: interestingCommands
interestingCommands == <<
    <<"g", "i", "t">>, <<"d", "o", "c", "k", "e", "r">>, <<"k", "u", "b", "e", "c", "t", "l">>, <<"t", "e", "r", "r", "a", "f", "o", "r", "m">>, <<"a", "n", "s", "i", "b", "l", "e">>, <<"m", "a", "k", "e">>, <<"n", "p", "m">>,
    <<"g", "o">>, <<"p", "y", "t", "h", "o", "n">>, <<"j", "a", "v", "a">>, <<"s", "s", "h">>, <<"s", "c", "p">>, <<"c", "u", "r", "l">>, <<"w", "g", "e", "t">>, <<"v", "i", "m">>, <<"n", "v", "i", "m">>,
    <<"e", "m", "a", "c", "s">>, <<"c", "o", "d", "e">> >>

\* isTypoCommand: commonTypos
commonTypos == <<
    <<"s", "l">>, <<"c", "d", ".", ".">>, <<"p", "y", "t", "h", "o", "o", "n">>, <<"g", "t", "i">>, <<"v", "m", "i">>, <<"n", "i", "v", "m">>, <<"e", "m", "a", "s", "c">>, <<"c", "l", "e", "a">>, <<"e", "x", "o", "t">> >>

\* isTypoCommand
isTypoCommand(command) == \E i \in DOMAIN commonTypos : command = commonTypos[i]

\* a test that knows the allowlisted names and the typos only
isInterestingByName(command) ==
    \/ \E i \in DOMAIN interestingCommands :
            HasPrefix(command, interestingCommands[i])
    \/ isTypoCommand(command)

\* isInterestingCommand
isInterestingCommand(command) ==
    \/ \E i \in DOMAIN interestingCommands :
            HasPrefix(command, interestingCommands[i])
    \/ ContainsAny(command, <<"|", ">", "<", "&", ";">>)
    \/ isTypoCommand(command)

\* a scan that stops one entry late
TimelineFullLate(timelineData) == Len(timelineData) > TimelineCap

\* GenerateTimelineData 170: the test that ends the scan
TimelineFull(timelineData) == Len(timelineData) >= TimelineCap

\* GenerateTimelineData 155: the command is already in the timeline
AlreadySeen(timelineData, command) ==
    \E i \in DOMAIN timelineData : timelineData[i].Command = command

\* a scan that leaves the inner loop at the cap and goes on with the next
\* shells
TimelineStepBreak(acc, shell, entry) ==
    IF AlreadySeen(acc.timelineData, entry.Command) THEN acc
    ELSE [timelineData |->
            IF isInterestingCommand(entry.Command)
            THEN Append(acc.timelineData,
                        [Timestamp |-> entry.Timestamp,
                         Command |-> entry.Command,
                         Shell |-> shell])
            ELSE acc.timelineData,
          returned |-> FALSE]

\* GenerateTimelineData 153-173: the body of the inner loop for one entry;
\* the result carries the timeline and whether the function returns
TimelineStep(acc, shell, entry) ==
    IF acc.returned \/ AlreadySeen(acc.timelineData, entry.Command) THEN acc
    ELSE LET next == IF isInterestingCommand(entry.Command)
                     THEN Append(acc.timelineData,
                                 [Timestamp |-> entry.Timestamp,
                                  Command |-> entry.Command,
                                  Shell |-> shell])
                     ELSE acc.timelineData
         IN  [timelineData |-> next, returned |-> TimelineFull(next)]

\* the inner loop over one shell's history, from entry i on
RECURSIVE TimelineScan(_, _, _, _)
TimelineScan(acc, shell, history, i) ==
    IF i > Len(history) THEN acc
    ELSE TimelineScan(TimelineStep(acc, shell, history[i]), shell, history, i + 1)

\* the outer loop, with the map Histories enumerated in `order`
RECURSIVE TimelineIn(_, _, _)
TimelineIn(acc, Histories, order) ==
    IF order = <<>> THEN acc
    ELSE TimelineIn(TimelineScan(acc, Head(order), Histories[Head(order)], 1),
                    Histories, Tail(order))

\* GenerateTimelineData: the timelines it can return for data
GenerateTimelineData(data) ==
    {TimelineIn([timelineData |-> <<>>, returned |-> FALSE],
                data.Histories, order).timelineData :
        order \in Perms(DOMAIN data.Histories)}

\* getInstalledLanguages: the binary that the version probe of lang runs
probeBinary(lang) ==
    CASE lang = <<"r", "u", "s", "t">> -> <<"r", "u", "s", "t", "c">>
      [] lang = <<"r">> -> <<"R">>
      [] lang = <<"h", "a", "s", "k", "e", "l", "l">> -> <<"g", "h", "c">>
      [] lang = <<"e", "r", "l", "a", "n", "g">> -> <<"e", "r", "l">>
      [] lang = <<"m", "a", "v", "e", "n">> -> <<"m", "v", "n">>
      [] lang = <<"b", "u", "n", "d", "l", "e", "r">> -> <<"b", "u", "n", "d", "l", "e">>
      [] lang = <<"a", "z", "u", "r", "e">> -> <<"a", "z">>
      [] lang = <<"m", "e", "r", "c", "u", "r", "i", "a", "l">> -> <<"h", "g">>
      [] lang = <<"m", "o", "n", "g", "o", "d", "b">> -> <<"m", "o", "n", "g", "o", "d">>
      [] lang = <<"r", "e", "d", "i", "s">> -> <<"r", "e", "d", "i", "s", "-", "c", "l", "i">>
      [] OTHER -> lang

\* the languages whose probe succeeds on a host with the binaries onPath
Probed(onPath) == {lang \in languages : probeBinary(lang) \in onPath}

(***************************************************************************)
(* The inputs of a run: the history files and the host.                    *)
(***************************************************************************)
\* os.Open fails: the history file is missing or unreadable
NoFile == [exists |-> FALSE]

\* a readable history file; tooLong: a line longer than the scanner's
\* buffer follows `lines`, so that scanner.Err() is not nil
File(lines, tooLong) == [exists |-> TRUE, lines |-> lines, tooLong |-> tooLong]

\* the history files of the model, by the shell that wrote them
HistoryFiles == [
    bash |-> {File(<<>>, FALSE),
              File(<<<<"g", "i", "t", " ", "c", "o", "m", "m", "i", "t", " ", "-", "m", " ", "\"", "x", "\"">>, <<"g", "i", "t", " ", "c", "o", "m", "m", "i", "t", " ", "-", "m", " ", "\"", "y", "\"">>, <<"l", "s", " ", "-", "l", "a">>>>, FALSE),
              File(<<<<"p", "y", "t", "h", "o", "n">>, <<"p", "y", "t", "h", "o", "n">>, <<"l", "s">>>>, FALSE),
              File(<<<<"m", "a", "k", "e">>>>, TRUE)},
    zsh |-> {File(<<>>, FALSE),
             File(<<<<"g", "o", " ", "r", "u", "n", " ", ".", "/", "b", "u", "i", "l", "d", "_", "t", "e", "s", "t", ".", "g", "o">>, <<" ", " ">>>>, FALSE),
             File(<<<<"p", "y", "t", "h", "o", "n">>, <<"c", "d", " ", "d", "e", "s", "k", "t", "o", "p">>, <<"t", "o", "p">>>>, FALSE)},
    fish |-> {File(<<<<"m", "a", "k", "e">>, <<"v", "i", "m">>>>, FALSE)} ]

\* the sets of binaries found on the hosts of the model
Hosts == {
    {<<"g", "i", "t">>},
    {<<"p", "y", "t", "h", "o", "n">>, <<"g", "o">>},
    {<<"p", "y", "t", "h", "o", "n">>, <<"g", "i", "t">>, <<"m", "a", "k", "e">>, <<"v", "i", "m">>} }

\* the config files of the hosts of the runs, by absolute path
HostConfigs ==
    (HomeDir.dir \o <<".bashrc">>) :> ConfigFile(<<<<"a", "l", "i", "a", "s", " ", "l", "l", "=", "'", "l", "s", " ", "-", "l", "a", "'">>>>)
        @@ (HomeDir.dir \o <<".config", "fish", "functions">>) :> ConfigDir

\* the hours at which a run can start
StartHours == {23}

(***************************************************************************)
(* State.                                                                  *)
(***************************************************************************)
VARIABLES
    files,        \* the history file of every shell family
    onPath,       \* the binaries of the host
    home,         \* what os.UserHomeDir returns
    configs,      \* the config files of the host, by absolute path
    now,          \* the hour the wall clock shows
    nano,         \* the number of time.Now() calls made
    ticks,        \* the number of hour roll-overs so far
    pc,           \* the position of AnalyzeShells
    pending,      \* the keys of shellPaths the range loop has yet to visit
    analyzed,     \* the shells analyzeCommands has been called for, in order
    data,         \* the ShellData
    call,         \* the locals of the latest analyzeCommands call
    timelineData, \* Model.timelineData: the latest GenerateTimelineData result
    prevTimeline, \* the result of the call before it
    calls,        \* the number of GenerateTimelineData calls
    model,        \* the Model of the interface, but for timelineData
    wrapped       \* the latest GenerateWrapped call: its argument and outcome

vars == <<files, onPath, home, configs, now, nano, ticks, pc, pending, analyzed, data, call,
          timelineData, prevTimeline, calls, model, wrapped>>

hostVars == <<files, onPath, home, configs>>
clockVars == <<now, nano, ticks>>
timelineVars == <<timelineData, prevTimeline, calls>>
modelVars == <<model, wrapped>>

\* InitShellData
InitShellData == [
    Histories |-> <<>>,
    Insights |-> [
        TechnicalProfile |-> [PrimaryRole |-> <<>>,
                              TechStack |-> <<>>,
                              Proficiency |-> <<>>],
        WorkPatterns |-> [PeakHours |-> <<>>, Productivity |-> <<>>],
        ToolUsage |-> [Editors |-> <<>>, Languages |-> <<>>, BuildTools |-> <<>>]],
    ShellConfigs |-> <<>>]

\* no analyzeCommands call has been made
NoCall == [made |-> FALSE]

\* InitialModel: tabs
tabs == <<"Overview", "Tech Profile", "Work Patterns", "Tool Usage",
          "Wrapped", "Timeline">>

\* the nil error
NilError == ""

\* InitialModel: the fields of the Model that Update and View use; the
\* zero ShellData has nil maps, which read as empty ones
InitialModel == [
    loading |-> TRUE,
    err |-> NilError,
    shellData |-> InitShellData,
    activeTab |-> 0,
    sections |-> <<>>,
    currentSectionIndex |-> 0]

\* no GenerateWrapped call yet
NoWrapped == [made |-> FALSE]

\* os.Open(expandPath(shellPaths[shell])) can find a file: the path is
\* under the home directory
Resolved(shell, homeDir) == Head(expandPath(shellPaths[shell], homeDir)) # "~"

Init ==
    /\ home \in {HomeDir, NoHomeDir}
    /\ files \in {f \in [Shells -> UNION Range(HistoryFiles) \cup {NoFile}] :
                    \A shell \in Shells :
                        /\ f[shell] \in HistoryFiles[shell] \cup {NoFile}
                        /\ ~Resolved(shell, home) => f[shell] = NoFile}
    /\ onPath \in Hosts
    /\ configs = HostConfigs
    /\ now \in StartHours
    /\ nano = 0
    /\ ticks = 0
    /\ pc = "analyze"
    /\ pending = Shells
    /\ analyzed = <<>>
    /\ data = InitShellData
    /\ call = NoCall
    /\ timelineData = <<>>
    /\ prevTimeline = <<>>
    /\ calls = 0
    /\ model = InitialModel
    /\ wrapped = NoWrapped

(***************************************************************************)
(* AnalyzeShells (shell_analysis.go 18-45).                                *)
(***************************************************************************)
\* the clock after readHistory has stamped entries; a roll-over shows only
\* in the next time.Now() call
ClockAfter(entries) ==
    /\ nano' = nano + Len(entries)
    /\ now' = IF entries = <<>> THEN now ELSE entries[Len(entries)].Timestamp.Hour
    /\ ticks' = ticks + ((now' - now + HoursPerDay) % HoursPerDay)

\* analyzeCommands(entries, &data): data after the call, for one outcome of
\* getInstalledLanguages, getMostUsed, the TechStack loop and getPeakHours
analyzeCommands(entries, d, installedLangs, primary, techStack, peaks) ==
    LET langUsage == LangUsage(entries, installedLangs)
        toolUsage == DevToolUsage(entries, onPath)
        profile == d.Insights.TechnicalProfile
    IN  [d EXCEPT
            !.Insights.TechnicalProfile =
                [PrimaryRole |-> IF primary.ok THEN RoleOf(primary.key)
                                 ELSE profile.PrimaryRole,
                 TechStack |-> techStack,
                 Proficiency |-> Proficiency(profile.Proficiency, langUsage,
                                             toolUsage, Len(entries))],
            !.Insights.WorkPatterns =
                [PeakHours |-> peaks,
                 Productivity |-> calculateProductivityMetrics(
                                      entries, CommandPatterns(entries))]]

\* the locals of analyzeCommands when it returns
Locals(entries, installedLangs) == [
    made |-> TRUE,
    entries |-> entries,
    installedLangs |-> installedLangs,
    langUsage |-> LangUsage(entries, installedLangs),
    toolUsage |-> DevToolUsage(entries, onPath),
    timeOfDay |-> TimeOfDay(entries),
    commandPatterns |-> CommandPatterns(entries)]

\* an iteration that stores the nil history of a failed readHistory
RecordUnreadable(shell) ==
    /\ pc = "analyze"
    /\ shell \in pending
    /\ \/ ~files[shell].exists /\ UNCHANGED clockVars
       \/ /\ files[shell].exists
          /\ files[shell].tooLong
          /\ \E entries \in readHistory(files[shell].lines, now, nano, MaxTicks - ticks) :
                ClockAfter(entries)
    /\ pending' = pending \ {shell}
    /\ data' = [data EXCEPT !.Histories = Put(@, shell, <<>>)]
    /\ UNCHANGED <<hostVars, pc, analyzed, call, timelineVars, modelVars>>

\* one iteration of the loop over shellPaths whose readHistory fails
SkipShell(shell) ==
    /\ pc = "analyze"
    /\ shell \in pending
    /\ \/ ~files[shell].exists /\ UNCHANGED clockVars
       \/ /\ files[shell].exists
          /\ files[shell].tooLong
          /\ \E entries \in readHistory(files[shell].lines, now, nano, MaxTicks - ticks) :
                ClockAfter(entries)
    /\ pending' = pending \ {shell}
    /\ UNCHANGED <<hostVars, pc, analyzed, data, call, timelineVars, modelVars>>

\* one iteration of the loop over shellPaths whose readHistory succeeds
AnalyzeShell(shell) ==
    /\ pc = "analyze"
    /\ shell \in pending
    /\ files[shell].exists
    /\ ~files[shell].tooLong
    /\ \E history \in readHistory(files[shell].lines, now, nano, MaxTicks - ticks) :
       \E installedLangs \in getInstalledLanguages(Probed(onPath)) :
       \E primary \in getMostUsed(LangUsage(history, installedLangs)) :
       \E techStack \in TechStacks(installedLangs, LangUsage(history, installedLangs)) :
       \E peaks \in getPeakHours(TimeOfDay(history)) :
          /\ ClockAfter(history)
          /\ data' = [data EXCEPT
                   !.Histories = Put(@, shell, history),
                   !.Insights = analyzeCommands(
                        history,
                        [data EXCEPT !.Histories = Put(@, shell, history)],
                        installedLangs, primary, techStack, peaks)
                     .Insights,
                   !.ShellConfigs =
                        Put(@, shell, analyzeShellConfigs(shell, home, configs))]
          /\ call' = Locals(history, installedLangs)
    /\ pending' = pending \ {shell}
    /\ analyzed' = Append(analyzed, shell)
    /\ UNCHANGED <<hostVars, pc, timelineVars, modelVars>>

\* AnalyzeShells 38-41: allEntries, with the map Histories enumerated in order
RECURSIVE AllEntries(_, _)
AllEntries(Histories, order) ==
    IF order = <<>> THEN <<>>
    ELSE Histories[Head(order)] \o AllEntries(Histories, Tail(order))

\* AnalyzeShells 37-44: the tool usage over all histories, and the return
AnalyzeTools ==
    /\ pc = "analyze"
    /\ pending = {}
    /\ \E order \in Perms(DOMAIN data.Histories) :
       \E installedLangs \in getInstalledLanguages(Probed(onPath)) :
          data' = [data EXCEPT !.Insights.ToolUsage =
                      analyzeToolUsage(AllEntries(data.Histories, order),
                                       installedLangs, onPath)]
    /\ pc' = "done"
    /\ UNCHANGED <<hostVars, clockVars, pending, analyzed, call, timelineVars, modelVars>>

Next ==
    \/ \E shell \in Shells : SkipShell(shell)
    \/ \E shell \in Shells : AnalyzeShell(shell)
    \/ AnalyzeTools

Spec == Init /\ [][Next]_vars

(***************************************************************************)
(* GenerateTimelineData on a ShellData (analyzer.go 145-177), called as    *)
(* Model.Update calls it (models.go 94).                                   *)
(***************************************************************************)
\* the lines the short histories are made of
ShortLines == {<<"g", "i", "t">>, <<"l", "s">>, <<"l", "s", " ", ">", "o", "u", "t">>}

\* all histories of at most n lines of ShortLines
RECURSIVE SeqsUpTo(_, _)
SeqsUpTo(S, n) ==
    IF n = 0 THEN {<<>>}
    ELSE LET shorter == SeqsUpTo(S, n - 1)
         IN  shorter \cup {Append(s, x) : s \in {t \in shorter : Len(t) = n - 1}, x \in S}

\* a long history: a duplicated line, then the first n allowlisted tool names
LongLines(n) ==
    <<<<"g", "i", "t">>, <<"c", "a", "t", " ", "n", "o", "t", "e", "s">>, <<"g", "i", "t">>>>
        \o [i \in 1..n |-> interestingCommands[((i - 1) % Len(interestingCommands)) + 1]]

\* the history readHistory makes of lines when no hour passes
HistoryOf(lines, hour, first) ==
    CHOOSE history \in readHistory(lines, hour, first, 0) : TRUE

\* the histories the model gives each shell
TimelineHistories == [
    bash |-> {HistoryOf(lines, 9, 0) :
                lines \in SeqsUpTo(ShortLines, MaxShort) \cup {LongLines(MaxLong)}},
    zsh |-> {HistoryOf(lines, 9, 100) : lines \in SeqsUpTo(ShortLines, MaxShort)},
    fish |-> {HistoryOf(<<<<"v", "i", "m">>, <<"c", "d", ".", ".">>, <<"t", "o", "p">>>> \o LongLines(MaxLong), 10, 200)} ]

\* the maps from the shells of `present` to one of their histories
RECURSIVE HistoryMaps(_)
HistoryMaps(present) ==
    IF present = {} THEN {<<>>}
    ELSE LET shell == CHOOSE s \in present : TRUE
         IN  {[s \in DOMAIN m \cup {shell} |-> IF s = shell THEN history ELSE m[s]] :
                m \in HistoryMaps(present \ {shell}),
                history \in TimelineHistories[shell]}

\* the ShellData the curator is given: Histories holds any of the shells
TimelineInputs ==
    {[InitShellData EXCEPT !.Histories = h] :
        h \in UNION {HistoryMaps(present) : present \in SUBSET Shells}}

InitTimeline ==
    /\ files = [shell \in Shells |-> NoFile]
    /\ onPath = {}
    /\ home = HomeDir
    /\ configs = HostConfigs
    /\ now = 10
    /\ nano = 300
    /\ ticks = 0
    /\ pc = "done"
    /\ pending = {}
    /\ analyzed = <<>>
    /\ data \in TimelineInputs
    /\ call = NoCall
    /\ timelineData = <<>>
    /\ prevTimeline = <<>>
    /\ calls = 0
    /\ model = InitialModel
    /\ wrapped = NoWrapped

\* m.timelineData = analyzer.GenerateTimelineData(msg), for the first and
\* for a second time on the same ShellData
CallGenerateTimelineData ==
    /\ pc = "done"
    /\ calls < 2
    /\ \E result \in GenerateTimelineData(data) :
          /\ timelineData' = result
          /\ prevTimeline' = timelineData
    /\ calls' = calls + 1
    /\ UNCHANGED <<hostVars, clockVars, pc, pending, analyzed, data, call, modelVars>>

NextTimeline == CallGenerateTimelineData

SpecTimeline == InitTimeline /\ [][NextTimeline]_vars

(***************************************************************************)
(* AnalyzeShells on hosts whose history files are empty and whose config   *)
(* files vary: the runs that exercise analyzeShellConfigs and              *)
(* parseShellConfig (shell_analysis.go 431-504).                           *)
(***************************************************************************)
\* the lines the first config file is made of
ConfigLines == {
    <<"a", "l", "i", "a", "s", " ", "l", "l", "=", "'", "l", "s", " ", "-", "l", "a", "'">>,
    <<"a", "l", "i", "a", "s", " ", "l", "l", "=", "\"", " ", "l", "s", " ", "\"">>,
    <<"a", "l", "i", "a", "s", " ", "g", "=", "'", "g", "i", "t">>,
    <<"a", "l", "i", "a", "s", " ", "q", "=", "\"", "'", "a", "'", "\"">>,
    <<"e", "x", "p", "o", "r", "t", " ", "E", "=", "\"", "x", " ", "y", "\"">>,
    <<"e", "x", "p", "o", "r", "t", " ", " ", "E", " ", "=", " ", "z", "'", " ">> }

\* the contents of the config file that is read first, second and third
ConfigContents == <<
    {ConfigFile(lines) : lines \in SeqsUpTo(ConfigLines, MaxConfigLines)},
    {ConfigFile(<<<<"a", "l", "i", "a", "s", " ", "l", "l", "=", "l", "s">>, <<" ", " ", "a", "l", "i", "a", "s", " ", "g", "=", "x">>, <<"a", "l", "i", "a", "s", " ", "p", "=", "'", "a", "=", "b", "'">>, <<"a", "l", "i", "a", "s", " ", "e", "=", "\"", "\"">>,
                  <<"e", "x", "p", "o", "r", "t", " ", "E", "=", "y">>>>),
     ConfigFile(<<<<"e", "x", "p", "o", "r", "t", " ", "E", "=", "y">>, <<"a", "l", "i", "a", "s", " ", "n", "o", "p">>>>)},
    {ConfigDir, ConfigFile(<<<<"e", "x", "p", "o", "r", "t", " ", "E", "=", "'", "z", " ", "z", "'">>>>)} >>

\* the file systems in which each config file of `shell` is missing or has
\* one of the contents of its position
ConfigsOf(shell) ==
    LET at(i) == {<<>>} \cup {expandPath(configPaths[shell][i], HomeDir) :> content :
                                content \in ConfigContents[i]}
    IN  {first @@ second @@ third : first \in at(1), second \in at(2), third \in at(3)}

InitConfigs ==
    /\ home = HomeDir
    /\ \E shell \in Shells :
          /\ configs \in ConfigsOf(shell)
          /\ files \in [Shells -> {NoFile, File(<<>>, FALSE)}]
          /\ \A s \in Shells \ {shell} : files[s] = NoFile
    /\ onPath = {<<"g", "i", "t">>}
    /\ now \in StartHours
    /\ nano = 0
    /\ ticks = 0
    /\ pc = "analyze"
    /\ pending = Shells
    /\ analyzed = <<>>
    /\ data = InitShellData
    /\ call = NoCall
    /\ timelineData = <<>>
    /\ prevTimeline = <<>>
    /\ calls = 0
    /\ model = InitialModel
    /\ wrapped = NoWrapped

SpecConfigs == InitConfigs /\ [][Next]_vars


(***************************************************************************)
(* getPeakHours on hour maps of longer runs (shell_analysis.go 253-274).   *)
(***************************************************************************)
\* the hours of the day the hour maps of the model are made of
PeakHourPool == {0, 9, 13, 14, 23}

\* the maps timeOfDay of the model: some hours, each with a count
RECURSIVE HourMapsOver(_)
HourMapsOver(hours) ==
    IF hours = {} THEN {<<>>}
    ELSE LET hour == CHOOSE h \in hours : TRUE
         IN  {(hour :> count) @@ rest :
                count \in 1..MaxCount, rest \in HourMapsOver(hours \ {hour})}

HourMaps == UNION {HourMapsOver(hours) : hours \in SUBSET PeakHourPool}

InitPeaks ==
    /\ files = [shell \in Shells |-> NoFile]
    /\ onPath = {}
    /\ home = HomeDir
    /\ configs = HostConfigs
    /\ now = 10
    /\ nano = 0
    /\ ticks = 0
    /\ pc = "getPeakHours"
    /\ pending = {}
    /\ analyzed = <<>>
    /\ data = InitShellData
    /\ call \in {[made |-> FALSE, timeOfDay |-> timeOfDay] : timeOfDay \in HourMaps}
    /\ timelineData = <<>>
    /\ prevTimeline = <<>>
    /\ calls = 0
    /\ model = InitialModel
    /\ wrapped = NoWrapped

\* analyzeCommands 166: PeakHours = getPeakHours(timeOfDay)
CallGetPeakHours ==
    /\ pc = "getPeakHours"
    /\ \E peaks \in getPeakHours(call.timeOfDay) :
          data' = [data EXCEPT !.Insights.WorkPatterns.PeakHours = peaks]
    /\ pc' = "peaks"
    /\ UNCHANGED <<hostVars, clockVars, pending, analyzed, call, timelineVars, modelVars>>

NextPeaks == CallGetPeakHours

SpecPeaks == InitPeaks /\ [][NextPeaks]_vars

(***************************************************************************)
(* AnalyzeShells on a host with more than ten of the probed identifiers    *)
(* installed (shell_analysis.go 304-418).                                  *)
(***************************************************************************)
\* the binaries of a host on which eleven version probes succeed
ManyTools == {
    <<"p", "y", "t", "h", "o", "n">>, <<"n", "o", "d", "e">>, <<"g", "o">>, <<"r", "u", "s", "t", "c">>, <<"r", "u", "b", "y">>, <<"p", "h", "p">>,
    <<"j", "a", "v", "a">>, <<"p", "e", "r", "l">>, <<"l", "u", "a">>, <<"g", "i", "t">>, <<"c", "u", "r", "l">> }

\* the runs on that host: at most one short history, read within the hour
InitInstalled ==
    /\ home = HomeDir
    /\ files \in {[bash |-> b, zsh |-> z, fish |-> NoFile] :
                    b \in {NoFile, File(<<>>, FALSE), File(<<<<"p", "y", "t", "h", "o", "n">>>>, FALSE)},
                    z \in {NoFile, File(<<>>, FALSE)}}
    /\ files.bash.exists /\ files.zsh.exists => files.bash.lines = <<>>
    /\ onPath = ManyTools
    /\ configs = HostConfigs
    /\ now \in StartHours
    /\ nano = 0
    /\ ticks = MaxTicks
    /\ pc = "analyze"
    /\ pending = Shells
    /\ analyzed = <<>>
    /\ data = InitShellData
    /\ call = NoCall
    /\ timelineData = <<>>
    /\ prevTimeline = <<>>
    /\ calls = 0
    /\ model = InitialModel
    /\ wrapped = NoWrapped

SpecInstalled == InitInstalled /\ [][Next]_vars

(***************************************************************************)
(* ShellDataToString (analyzer.go 104-143).                                *)
(***************************************************************************)
\* fmt's %d of a number n >= 0
RECURSIVE Itoa(_)
Itoa(n) ==
    LET digit == <<"0", "1", "2", "3", "4", "5", "6", "7", "8", "9">>[(n % 10) + 1]
    IN  IF n < 10 THEN <<digit>> ELSE Itoa(n \div 10) \o <<digit>>

\* fmt's %02d of a number n >= 0
Itoa02(n) == IF n < 10 THEN <<"0">> \o Itoa(n) ELSE Itoa(n)

\* fmt's %.1f of value*100 for a quotient value >= 0: the nearest tenth,
\* ties to the even tenth (the quotients of the model have no tie that is
\* not exact in float64)
Percent1(value) ==
    LET scaled == value.num * 1000
        low == scaled \div value.den
        twice == 2 * (scaled % value.den)
        tenths == IF twice > value.den \/ (twice = value.den /\ low % 2 = 1)
                  THEN low + 1 ELSE low
    IN  Itoa(tenths \div 10) \o <<".">> \o Itoa(tenths % 10)

\* strings.Join
RECURSIVE Join(_, _)
Join(elems, sep) ==
    IF elems = <<>> THEN <<>>
    ELSE IF Len(elems) = 1 THEN Head(elems)
    ELSE Head(elems) \o sep \o Join(Tail(elems), sep)

\* the Go string that is the key `shell` of shellPaths
ShellName(shell) ==
    CASE shell = "bash" -> <<"b", "a", "s", "h">>
      [] shell = "zsh" -> <<"z", "s", "h">>
      [] shell = "fish" -> <<"f", "i", "s", "h">>

\* the Go string that is the key `metric` of Productivity
MetricName(metric) ==
    CASE metric = "Command Variety" -> <<"C", "o", "m", "m", "a", "n", "d", " ", "V", "a", "r", "i", "e", "t", "y">>
      [] metric = "Workflow Complexity" -> <<"W", "o", "r", "k", "f", "l", "o", "w", " ", "C", "o", "m", "p", "l", "e", "x", "i", "t", "y">>

\* ShellDataToString 108-110, with Histories enumerated in `order`
RECURSIVE ShellLines(_, _)
ShellLines(Histories, order) ==
    IF order = <<>> THEN <<>>
    ELSE <<"S", "h", "e", "l", "l", ":", " ">> \o ShellName(Head(order)) \o <<",", " ", "C", "o", "m", "m", "a", "n", "d", "s", ":", " ">>
            \o Itoa(Len(Histories[Head(order)])) \o <<"\n">>
            \o ShellLines(Histories, Tail(order))

\* ShellDataToString 113-115
TechStackLine(TechStack) ==
    IF Len(TechStack) > 0
    THEN <<"T", "e", "c", "h", " ", "S", "t", "a", "c", "k", ":", " ">> \o Join(TechStack, <<",", " ">>) \o <<"\n">>
    ELSE <<>>

\* ShellDataToString 120-122
RECURSIVE HourStamps(_)
HourStamps(PeakHours) ==
    IF PeakHours = <<>> THEN <<>>
    ELSE Itoa02(Head(PeakHours)) \o <<":", "0", "0", " ">> \o HourStamps(Tail(PeakHours))

\* ShellDataToString 118-124
PeakHoursLine(PeakHours) ==
    IF Len(PeakHours) > 0
    THEN <<"P", "e", "a", "k", " ", "H", "o", "u", "r", "s", ":", " ">> \o HourStamps(PeakHours) \o <<"\n">>
    ELSE <<>>

\* ShellDataToString 129-131, with Productivity enumerated in `order`
RECURSIVE MetricLines(_, _)
MetricLines(Productivity, order) ==
    IF order = <<>> THEN <<>>
    ELSE <<"-", " ">> \o MetricName(Head(order)) \o <<":", " ">>
            \o Percent1(Productivity[Head(order)]) \o <<"%", "\n">>
            \o MetricLines(Productivity, Tail(order))

\* ShellDataToString 127-132
ProductivityBlock(Productivity, order) ==
    IF Cardinality(DOMAIN Productivity) > 0
    THEN <<"P", "r", "o", "d", "u", "c", "t", "i", "v", "i", "t", "y", " ", "M", "e", "t", "r", "i", "c", "s", ":">> \o <<"\n">> \o MetricLines(Productivity, order)
    ELSE <<>>

\* ShellDataToString 137-139, with Editors enumerated in `order`
RECURSIVE EditorLines(_, _)
EditorLines(Editors, order) ==
    IF order = <<>> THEN <<>>
    ELSE <<"-", " ">> \o Head(order) \o <<":", " ">> \o Itoa(Editors[Head(order)])
            \o <<" ", "u", "s", "e", "s">> \o <<"\n">> \o EditorLines(Editors, Tail(order))

\* an Editors section whose heading is written for an empty map too
EditorsBlockAlways(Editors, order) ==
    <<"E", "d", "i", "t", "o", "r", "s", ":">> \o <<"\n">> \o EditorLines(Editors, order)

\* ShellDataToString 135-140
EditorsBlock(Editors, order) ==
    IF Cardinality(DOMAIN Editors) > 0
    THEN <<"E", "d", "i", "t", "o", "r", "s", ":">> \o <<"\n">> \o EditorLines(Editors, order)
    ELSE <<>>

\* ShellDataToString: the strings it can return; the three maps are
\* enumerated in any order
ShellDataToString(d) ==
    {ShellLines(d.Histories, shellOrder)
        \o TechStackLine(d.Insights.TechnicalProfile.TechStack)
        \o PeakHoursLine(d.Insights.WorkPatterns.PeakHours)
        \o ProductivityBlock(d.Insights.WorkPatterns.Productivity, metricOrder)
        \o EditorsBlock(d.Insights.ToolUsage.Editors, editorOrder) :
            shellOrder \in Perms(DOMAIN d.Histories),
            metricOrder \in Perms(DOMAIN d.Insights.WorkPatterns.Productivity),
            editorOrder \in Perms(DOMAIN d.Insights.ToolUsage.Editors)}

(***************************************************************************)
(* GenerateWrapped (render.go 344-469).                                    *)
(***************************************************************************)
\* the i-th slide of a reply of the narrative service
Slide(i) ==
    [Title |-> <<"S", "l", "i", "d", "e", " ">> \o Itoa(i),
     Description |-> <<"Y", "o", "u", "r", " ", "s", "h", "e", "l", "l", " ", "y", "e", "a", "r">>,
     Animation |-> <<<<"*">>, <<"*", "*">>>>,
     Quotes |-> IF i = 1 THEN <<>> ELSE <<<<"q">>>>]

\* what the narrative service and the log file can do during one call
Replies ==
    {[kind |-> kind] : kind \in {"no reply", "no text"}}
        \cup {[kind |-> "text", parses |-> FALSE]}
        \cup {[kind |-> "text", parses |-> TRUE,
               sections |-> [i \in 1..n |-> Slide(i)]] : n \in 0..MaxSections}

\* GenerateWrapped(data): what it returns when the service does `reply`
GenerateWrapped(text, reply) ==
    LET failed(err) == [resp |-> [Sections |-> <<>>], err |-> err]
    IN  CASE reply.kind = "no reply" -> failed("failed to send request")
          [] reply.kind = "not logged" -> failed("failed to log response")
          [] reply.kind = "not JSON" -> failed("failed to decode response")
          [] reply.kind = "no text" -> failed("invalid response format")
          [] reply.kind = "text" ->
                IF reply.parses
                THEN [resp |-> [Sections |-> reply.sections], err |-> NilError]
                ELSE failed("failed to parse text as JSON")

(***************************************************************************)
(* View and the render functions (models.go 144-194, render.go 99-270).    *)
(***************************************************************************)
\* int(value * n) for a quotient value >= 0
Scaled(value, n) == (value.num * n) \div value.den

\* RenderTechProfile 156-160: bars of every item, after the clamp
TechProfileBars(profile) ==
    {LET bars == Scaled(profile.Proficiency[tech], BarWidth)
     IN  IF bars < 0 THEN 0 ELSE bars : tech \in DOMAIN profile.Proficiency}

\* RenderWorkPatterns 190: bars of every metric
WorkPatternsBars(workPatterns) ==
    {Scaled(workPatterns.Productivity[metric], BarWidth) :
        metric \in DOMAIN workPatterns.Productivity}

\* RenderToolUsage 216-219: total
RECURSIVE Total(_, _)
Total(counts, keys) ==
    IF keys = {} THEN 0
    ELSE LET k == CHOOSE k \in keys : TRUE
         IN  counts[k] + Total(counts, keys \ {k})

\* RenderToolUsage 224-230, 243-247, 259-263: bars of every editor, language
\* and build tool; nothing is drawn when total is 0
ToolUsageBars(usage) ==
    LET total == Total(usage.Editors, DOMAIN usage.Editors)
        clamp(bars) == IF bars < 0 THEN 0 ELSE bars
    IN  IF total > 0
        THEN {clamp(Scaled(Ratio(usage.Editors[k] * 100, total), 1) \div 5) :
                k \in DOMAIN usage.Editors}
             \cup {clamp(Scaled(Ratio(usage.Languages[k], total), BarWidth)) :
                    k \in DOMAIN usage.Languages}
             \cup {clamp(Scaled(Ratio(usage.BuildTools[k], total), BarWidth)) :
                    k \in DOMAIN usage.BuildTools}
        ELSE {}

\* the bars that View draws for the active tab
BarsDrawn(m) ==
    IF m.loading \/ m.activeTab \notin 0..(Len(tabs) - 1) THEN {}
    ELSE CASE tabs[m.activeTab + 1] = "Tech Profile" ->
                TechProfileBars(m.shellData.Insights.TechnicalProfile)
           [] tabs[m.activeTab + 1] = "Work Patterns" ->
                WorkPatternsBars(m.shellData.Insights.WorkPatterns)
           [] tabs[m.activeTab + 1] = "Tool Usage" ->
                ToolUsageBars(m.shellData.Insights.ToolUsage)
           [] OTHER -> {}

\* View panics: an index is out of range, or strings.Repeat gets a negative
\* count
ViewPanics(m) ==
    /\ ~m.loading
    /\ \/ m.activeTab \notin 0..(Len(tabs) - 1)
       \/ /\ tabs[m.activeTab + 1] = "Wrapped"
          /\ Len(m.sections) # 0
          /\ m.currentSectionIndex \notin 0..(Len(m.sections) - 1)
       \/ \E bars \in BarsDrawn(m) : BarWidth - bars < 0

\* the program after Update has returned m: the event loop draws View
Shown(m) == IF ViewPanics(m) THEN "panic" ELSE "done"

(***************************************************************************)
(* Model.Update (models.go 67-142).                                        *)
(***************************************************************************)
\* an Update that drops the profile when the narrative fails
UpdateShellDataReset(m, msg, out) ==
    IF out.err # NilError
    THEN [InitialModel EXCEPT !.loading = FALSE, !.err = out.err]
    ELSE [m EXCEPT !.loading = FALSE, !.shellData = msg,
                   !.sections = [i \in DOMAIN out.resp.Sections |->
                                    [out.resp.Sections[i] EXCEPT !.Animation = <<>>]],
                   !.currentSectionIndex = 0]

\* Update 91-124, but for timelineData: the model it returns for the
\* message msg when GenerateWrapped returns out
UpdateShellData(m, msg, out) ==
    LET received == [m EXCEPT !.loading = FALSE, !.shellData = msg]
    IN  IF out.err # NilError
        THEN [received EXCEPT !.err = out.err]
        ELSE [received EXCEPT
                !.sections = [i \in DOMAIN out.resp.Sections |->
                                [out.resp.Sections[i] EXCEPT !.Animation = <<>>]],
                !.currentSectionIndex = 0]

\* the key messages Update has a case for
Keys == {"q", "ctrl+c", "tab", "right", "l", "n", "left", "h", "p"}

\* a left key that stops at nothing
UpdateKeyNoWrap(m, key) ==
    CASE key = "tab" ->
            [m EXCEPT !.activeTab = (m.activeTab + 1) % Len(tabs)]
      [] key \in {"right", "l", "n"} ->
            IF Len(m.sections) > 0
            THEN [m EXCEPT !.currentSectionIndex =
                        (m.currentSectionIndex + 1) % Len(m.sections)]
            ELSE m
      [] key \in {"left", "h", "p"} ->
            IF Len(m.sections) > 0
            THEN [m EXCEPT !.currentSectionIndex = m.currentSectionIndex - 1]
            ELSE m
      [] OTHER -> m

\* Update 69-89: the model it returns for a key message
UpdateKey(m, key) ==
    CASE key = "tab" ->
            [m EXCEPT !.activeTab = (m.activeTab + 1) % Len(tabs)]
      [] key \in {"right", "l", "n"} ->
            IF Len(m.sections) > 0
            THEN [m EXCEPT !.currentSectionIndex =
                        (m.currentSectionIndex + 1) % Len(m.sections)]
            ELSE m
      [] key \in {"left", "h", "p"} ->
            IF Len(m.sections) > 0
            THEN [m EXCEPT !.currentSectionIndex =
                        IF m.currentSectionIndex - 1 < 0
                        THEN Len(m.sections) - 1
                        ELSE m.currentSectionIndex - 1]
            ELSE m
      [] OTHER -> m

\* the history files and hosts of the runs of the interface; the hour can
\* roll over while the last of them is read
ModelInputs == {
    [files |-> [shell \in Shells |-> NoFile], onPath |-> {<<"g", "i", "t">>},
     ticks |-> MaxTicks],
    [files |-> [bash |-> NoFile, zsh |-> File(<<>>, FALSE), fish |-> NoFile],
     onPath |-> {<<"g", "i", "t">>}, ticks |-> MaxTicks],
    [files |-> [bash |-> File(<<<<"p", "y", "t", "h", "o", "n">>, <<"p", "y", "t", "h", "o", "n">>, <<"l", "s">>>>, FALSE),
                zsh |-> File(<<<<"g", "o", " ", "r", "u", "n", " ", ".", "/", "b", "u", "i", "l", "d", "_", "t", "e", "s", "t", ".", "g", "o">>, <<" ", " ">>>>, FALSE),
                fish |-> NoFile],
     onPath |-> {<<"p", "y", "t", "h", "o", "n">>, <<"g", "o">>}, ticks |-> MaxTicks],
    [files |-> [bash |-> NoFile, zsh |-> NoFile,
                fish |-> File(<<<<"m", "a", "k", "e">>, <<"v", "i", "m">>>>, FALSE)],
     onPath |-> {<<"p", "y", "t", "h", "o", "n">>, <<"g", "i", "t">>, <<"m", "a", "k", "e">>, <<"v", "i", "m">>}, ticks |-> 0] }

\* the runs of the interface: the home directory is known
InitModel ==
    /\ home = HomeDir
    /\ \E input \in ModelInputs :
          /\ files = input.files
          /\ onPath = input.onPath
          /\ ticks = input.ticks
    /\ configs = HostConfigs
    /\ now \in StartHours
    /\ nano = 0
    /\ pc = "analyze"
    /\ pending = Shells
    /\ analyzed = <<>>
    /\ data = InitShellData
    /\ call = NoCall
    /\ timelineData = <<>>
    /\ prevTimeline = <<>>
    /\ calls = 0
    /\ model = InitialModel
    /\ wrapped = NoWrapped

\* Update handles the ShellData message that AnalyzeShells returned
HandleShellData ==
    /\ pc = "done"
    /\ calls < MaxShellData
    /\ \E result \in GenerateTimelineData(data) :
       \E text \in ShellDataToString(data) :
       \E reply \in Replies :
          LET out == GenerateWrapped(text, reply)
          IN  /\ timelineData' = result
              /\ wrapped' = [made |-> TRUE, data |-> text, reply |-> reply,
                             err |-> out.err]
              /\ model' = UpdateShellData(model, data, out)
    /\ prevTimeline' = timelineData
    /\ calls' = calls + 1
    /\ pc' = Shown(model')
    /\ UNCHANGED <<hostVars, clockVars, pending, analyzed, data, call>>

\* Update handles a navigation key
HandleKey ==
    /\ pc = "done"
    /\ \E key \in Keys \ {"q", "ctrl+c"} : model' = UpdateKey(model, key)
    /\ pc' = Shown(model')
    /\ UNCHANGED <<hostVars, clockVars, pending, analyzed, data, call,
                   timelineVars, wrapped>>

\* Update handles q or ctrl+c: tea.Quit ends the program
HandleQuit ==
    /\ pc = "done"
    /\ \E key \in {"q", "ctrl+c"} : model' = UpdateKey(model, key)
    /\ pc' = "quit"
    /\ UNCHANGED <<hostVars, clockVars, pending, analyzed, data, call,
                   timelineVars, wrapped>>

NextModel ==
    \/ Next
    \/ HandleShellData
    \/ HandleKey
    \/ HandleQuit

SpecModel == InitModel /\ [][NextModel]_vars
(***************************************************************************)
(* Claims about the timeline curator.                                      *)
(***************************************************************************)
\* the distinct interesting commands of the histories of d
InterestingIn(d) ==
    {c \in UNION {{d.Histories[shell][i].Command : i \in DOMAIN d.Histories[shell]} :
                    shell \in DOMAIN d.Histories} : isInterestingCommand(c)}

\* C1: GenerateTimelineData returns at most 15 entries, and no two of the
\* entries it returns have the same command text
C1_TimelineBoundedAndDistinct ==
    /\ Len(timelineData) <= TimelineCap
    /\ \A i, j \in DOMAIN timelineData :
          i # j => timelineData[i].Command # timelineData[j].Command

\* C1 witness: a call has returned a full timeline for histories that hold
\* more than 15 distinct interesting commands, one of them twice
C1_Witness ==
    /\ calls > 0
    /\ Len(timelineData) = TimelineCap
    /\ Cardinality(InterestingIn(data)) > TimelineCap
    /\ \E shell \in DOMAIN data.Histories :
       \E i, j \in DOMAIN data.Histories[shell] :
          /\ i < j
          /\ data.Histories[shell][i].Command = data.Histories[shell][j].Command
          /\ isInterestingCommand(data.Histories[shell][i].Command)

\* C10: two calls of GenerateTimelineData on the same ShellData with two or
\* more shells return the same sequence of entries
C10_SameTimelineOnSecondCall ==
    (calls >= 2 /\ Cardinality(DOMAIN data.Histories) >= 2)
        => timelineData = prevTimeline

(***************************************************************************)
(* Claims about the profile aggregator.                                    *)
(***************************************************************************)
\* AnalyzeShells has returned
Done == pc = "done"

\* the shells whose history was read
Detected == DOMAIN data.Histories

\* the entries of all detected shells; the tallies below do not depend on
\* the order in which the histories are joined
EntriesOfAll ==
    AllEntries(data.Histories, CHOOSE order \in Perms(Detected) : TRUE)

\* the identifier has an entry in the table of getPackageManager
HasManager(lang) == getPackageManager(lang) # <<>>

\* the test of the specification: the text holds the identifier, or the
\* package-manager string associated with it
NamesIdentifier(text, lang) ==
    \/ Contains(text, lang)
    \/ HasManager(lang) /\ Contains(text, getPackageManager(lang))

\* the number of entries that name the identifier
Naming(entries, lang) ==
    Cardinality({i \in DOMAIN entries : NamesIdentifier(entries[i].Command, lang)})

\* C2: in analyzeCommands and analyzeToolUsage the usage count of an
\* identifier is incremented for a command only if the command contains the
\* identifier or its package-manager string and the identifier is installed,
\* also for identifiers that getPackageManager does not map
C2_CountedOnlyWhenNamed ==
    /\ call.made =>
          \A lang \in DOMAIN call.langUsage :
              /\ lang \in Probed(onPath)
              /\ call.langUsage[lang] <= Naming(call.entries, lang)
    /\ Done =>
          \A lang \in DOMAIN data.Insights.ToolUsage.Languages :
              /\ lang \in Probed(onPath)
              /\ data.Insights.ToolUsage.Languages[lang] <= Naming(EntriesOfAll, lang)

\* the line invokes git with arguments
InvokesGit(line) ==
    LET parts == Fields(line) IN Len(parts) > 1 /\ parts[1] = <<"g", "i", "t">>

\* the number of lines of the file that invoke git with arguments
GitLines(lines) == Cardinality({i \in DOMAIN lines : InvokesGit(lines[i])})

\* the number of lines of the file that name the identifier
LinesNaming(lines, lang) ==
    Cardinality({i \in DOMAIN lines : NamesIdentifier(lines[i], lang)})

\* the only history file of the run is one in which some lines invoke git
\* with arguments and no other line mentions git, and git is installed
GitScenario(shell) ==
    /\ \A s \in Shells : files[s].exists <=> s = shell
    /\ ~files[shell].tooLong
    /\ <<"g", "i", "t">> \in onPath
    /\ GitLines(files[shell].lines) > 0
    /\ \A i \in DOMAIN files[shell].lines :
          InvokesGit(files[shell].lines[i]) \/ ~Contains(files[shell].lines[i], <<"g", "i", "t">>)

\* C3: for a history file in which n lines invoke git with arguments and the
\* other lines do not mention git, with git installed, the languages tally
\* is git: n, and PrimaryRole is "Git Developer" when git has the highest count
C3_GitScenarioTally ==
    \A shell \in Shells :
        (Done /\ GitScenario(shell)) =>
            /\ Get(data.Insights.ToolUsage.Languages, <<"g", "i", "t">>)
                    = GitLines(files[shell].lines)
            /\ Get(call.langUsage, <<"g", "i", "t">>) = GitLines(files[shell].lines)
            /\ (\A lang \in Probed(onPath) \ {<<"g", "i", "t">>} :
                    LinesNaming(files[shell].lines, lang) < GitLines(files[shell].lines))
                => data.Insights.TechnicalProfile.PrimaryRole = <<"G", "i", "t", " ", "D", "e", "v", "e", "l", "o", "p", "e", "r">>

\* the identifiers analyzeCommands classifies: the installed languages and
\* the development tools
Classified == Probed(onPath) \cup Range(tools)

\* the usage count of an identifier over entries, as analyzeCommands counts
UsageIn(entries, id) ==
    LET asLang == IF id \in Probed(onPath)
                  THEN LangCount(entries, id) ELSE 0
        asTool == IF id \in Range(tools)
                  THEN ToolCount(entries, id, onPath) ELSE 0
    IN  IF asLang >= asTool THEN asLang ELSE asTool

\* C4: after AnalyzeShells with two or more shells detected, PrimaryRole,
\* when set, names an identifier whose usage count over the histories of
\* all detected shells is the highest among the classified identifiers
C4_PrimaryRoleOverAllShells ==
    (Done /\ Cardinality(Detected) >= 2
          /\ data.Insights.TechnicalProfile.PrimaryRole # <<>>) =>
        \E id \in Classified :
            /\ data.Insights.TechnicalProfile.PrimaryRole = RoleOf(id)
            /\ \A other \in Classified :
                  UsageIn(EntriesOfAll, other) <= UsageIn(EntriesOfAll, id)

\* C5: after AnalyzeShells, TechStack holds every installed identifier whose
\* usage count in the histories of the detected shells is positive
C5_TechStackHoldsEveryUsed ==
    Done =>
        \A lang \in Probed(onPath) :
            LangCount(EntriesOfAll, lang) > 0
                => lang \in Range(data.Insights.TechnicalProfile.TechStack)

\* C6: after any sequence of analyzeCommands calls on one ShellData, every
\* language that is a key of Proficiency with a positive score is in TechStack
C6_ProficientInTechStack ==
    \A lang \in DOMAIN data.Insights.TechnicalProfile.Proficiency :
        (lang \in languages
            /\ data.Insights.TechnicalProfile.Proficiency[lang].num > 0)
            => lang \in Range(data.Insights.TechnicalProfile.TechStack)

\* two maps of float64 quotients hold the same values
SameMetrics(a, b) ==
    /\ DOMAIN a = DOMAIN b
    /\ \A k \in DOMAIN a : RatioLeq(a[k], b[k]) /\ RatioLeq(b[k], a[k])

\* C7: after AnalyzeShells with two or more shells detected, PeakHours and
\* Productivity are computed from the entries of all detected shells
C7_WorkPatternsOverAllShells ==
    (Done /\ Cardinality(Detected) >= 2) =>
        /\ data.Insights.WorkPatterns.PeakHours \in getPeakHours(TimeOfDay(EntriesOfAll))
        /\ SameMetrics(data.Insights.WorkPatterns.Productivity,
                       calculateProductivityMetrics(EntriesOfAll,
                                                    CommandPatterns(EntriesOfAll)))

\* C8: both productivity metrics lie in the interval [0,1]
C8_ProductivityInUnitInterval ==
    \A metric \in DOMAIN data.Insights.WorkPatterns.Productivity :
        LET value == data.Insights.WorkPatterns.Productivity[metric]
        IN  0 <= value.num /\ value.num <= value.den

\* C9: getPeakHours lists the hours by count descending and, among hours of
\* equal count, the lower hour first
C9_PeakHoursTieLowerFirst ==
    call.made =>
        LET peaks == data.Insights.WorkPatterns.PeakHours
        IN  \A i \in 1..(Len(peaks) - 1) :
                \/ call.timeOfDay[peaks[i]] > call.timeOfDay[peaks[i + 1]]
                \/ /\ call.timeOfDay[peaks[i]] = call.timeOfDay[peaks[i + 1]]
                   /\ peaks[i] < peaks[i + 1]


(***************************************************************************)
(* Claims about the counts of one history and the empty cases.             *)
(***************************************************************************)
\* the identifiers the language and tool tests look for
Candidates == languages \cup Range(tools) \cup Range(editors) \cup Range(buildTools)

\* the command matches no category prefix, contains no candidate
\* identifier and no package-manager string
Irrelevant(cmd) ==
    /\ \A category \in DOMAIN patterns :
       \A i \in DOMAIN patterns[category] : ~HasPrefix(cmd, patterns[category][i])
    /\ \A id \in Candidates : ~Contains(cmd, id)
    /\ \A lang \in languages :
          HasManager(lang) => ~Contains(cmd, getPackageManager(lang))

\* the number of entries that are not irrelevant
Relevant(entries) ==
    Cardinality({i \in DOMAIN entries : ~Irrelevant(entries[i].Command)})

\* every count of the map is at most n
AtMost(usage, n) == \A k \in DOMAIN usage : usage[k] <= n

\* C11: an entry whose command matches no category prefix and contains no
\* candidate identifier and no package-manager string is kept in the
\* history of its shell, but increments no language, development-tool,
\* editor or build-tool count and adds no key to TechStack or Proficiency
C11_IrrelevantEntryCountsNowhere ==
    /\ \A shell \in Detected :
          Len(data.Histories[shell]) = Len(KeptCommands(files[shell].lines))
    /\ call.made =>
          /\ AtMost(call.langUsage, Relevant(call.entries))
          /\ AtMost(call.toolUsage, Relevant(call.entries))
          /\ Relevant(call.entries) = 0
                => data.Insights.TechnicalProfile.TechStack = <<>>
    /\ Done =>
          /\ AtMost(data.Insights.ToolUsage.Languages, Relevant(EntriesOfAll))
          /\ AtMost(data.Insights.ToolUsage.Editors, Relevant(EntriesOfAll))
          /\ AtMost(data.Insights.ToolUsage.BuildTools, Relevant(EntriesOfAll))
    /\ data.Insights.TechnicalProfile.Proficiency # <<>>
          => \E shell \in Detected : Relevant(data.Histories[shell]) > 0

\* the counts analyzeCommands can hold for the identifier id over a history
CountsOf(history, id) ==
    {LangCount(history, id) : lang \in Probed(onPath) \cap {id}}
        \cup {ToolCount(history, id, onPath) : tool \in Range(tools) \cap {id}}

\* C12: every value of Proficiency is count/total for the history of one
\* shell, where total is the number of entries of that history and
\* 0 < count <= total; so every score is in [0,1] and none is written for
\* a history without entries
C12_ProficiencyIsShareOfOneHistory ==
    \A id \in DOMAIN data.Insights.TechnicalProfile.Proficiency :
        LET value == data.Insights.TechnicalProfile.Proficiency[id]
        IN  /\ 0 < value.num
            /\ value.num <= value.den
            /\ \E shell \in Detected :
                  /\ value.den = Len(data.Histories[shell])
                  /\ value.num \in CountsOf(data.Histories[shell], id)

\* C12 witness: analyzeCommands has been called for a history with entries
\* and then for one without; Proficiency holds the share of a language and
\* the share, below 1, of a development tool
C12_Witness ==
    /\ Len(analyzed) >= 2
    /\ call.made /\ call.entries = <<>>
    /\ \E lang \in languages, tool \in Range(tools) :
          /\ lang \in DOMAIN data.Insights.TechnicalProfile.Proficiency
          /\ tool \in DOMAIN data.Insights.TechnicalProfile.Proficiency
          /\ data.Insights.TechnicalProfile.Proficiency[tool].num
                < data.Insights.TechnicalProfile.Proficiency[tool].den

\* C13: when the history of a detected shell has no entries, the
\* productivity result holds "Command Variety" and "Workflow Complexity",
\* both with the value 0
C13_EmptyHistoryReportsZero ==
    (call.made /\ call.entries = <<>>) =>
        /\ DOMAIN data.Insights.WorkPatterns.Productivity
                = {"Command Variety", "Workflow Complexity"}
        /\ \A metric \in DOMAIN data.Insights.WorkPatterns.Productivity :
                data.Insights.WorkPatterns.Productivity[metric].num = 0

\* no history file is present
NoHistoryFile == \A shell \in Shells : ~files[shell].exists

\* C14: when no history file is present for any shell, AnalyzeShells
\* returns a ShellData whose fields are those of InitShellData (empty
\* Histories, Proficiency, Productivity and ToolUsage maps, no PeakHours,
\* no TechStack, PrimaryRole unset), and no quotient is computed
C14_NoHistoryGivesEmptyInsights ==
    (Done /\ NoHistoryFile) => (data = InitShellData /\ call = NoCall)

\* C14 witness: AnalyzeShells has returned on a host with installed tools,
\* a home directory and no history file
C14_Witness ==
    /\ Done
    /\ NoHistoryFile
    /\ home.ok
    /\ Cardinality(Probed(onPath)) > 1

\* the number of entries whose command is prefixed by the identifier
PrefixCount(entries, id) ==
    Cardinality({i \in DOMAIN entries : HasPrefix(entries[i].Command, id)})

\* C15: every ToolUsage tally (Editors, Languages, BuildTools) is the number
\* of entries, over the histories of all detected shells, whose command is
\* prefixed by the identifier and whose tool is installed
C15_ToolUsageCountsPrefixes ==
    Done =>
        /\ data.Insights.ToolUsage.Editors
                = UsageMap([id \in Range(editors) \cap onPath |->
                                PrefixCount(EntriesOfAll, id)])
        /\ data.Insights.ToolUsage.BuildTools
                = UsageMap([id \in Range(buildTools) \cap onPath |->
                                PrefixCount(EntriesOfAll, id)])
        /\ data.Insights.ToolUsage.Languages
                = UsageMap([id \in Probed(onPath) |-> PrefixCount(EntriesOfAll, id)])

(***************************************************************************)
(* Claims about the config parser.                                         *)
(***************************************************************************)
\* the lines parseShellConfig scans for a shell: those of its config files
\* that exist, in the order of configPaths
RECURSIVE ScannedFrom(_, _)
ScannedFrom(shell, i) ==
    IF i > Len(configPaths[shell]) THEN <<>>
    ELSE LET info == Stat(expandPath(configPaths[shell][i], home), configs)
         IN  (IF info.exists THEN info.lines ELSE <<>>) \o ScannedFrom(shell, i + 1)

ScannedLines(shell) == ScannedFrom(shell, 1)

\* the line declares a name with the keyword
IsDeclaration(line, keyword) ==
    HasPrefix(line, keyword) /\ "=" \in Range(TrimPrefix(line, keyword))

\* the name the declaration gives, without the blanks around it
DeclaredName(line, keyword) == TrimSpace(SplitN2(TrimPrefix(line, keyword))[1])

\* the value as the declaration writes it, without the blanks around it
WrittenValue(line, keyword) == TrimSpace(SplitN2(TrimPrefix(line, keyword))[2])

\* the lines that declare `name`
DeclarationsOf(lines, keyword, name) ==
    {i \in DOMAIN lines :
        IsDeclaration(lines[i], keyword) /\ DeclaredName(lines[i], keyword) = name}

\* the names the lines declare
DeclaredNames(lines, keyword) ==
    {DeclaredName(lines[i], keyword) :
        i \in {i \in DOMAIN lines : IsDeclaration(lines[i], keyword)}}

\* the last line that declares `name`
LastDeclaration(lines, keyword, name) ==
    CHOOSE i \in DeclarationsOf(lines, keyword, name) :
        \A j \in DeclarationsOf(lines, keyword, name) : j <= i

\* the value without the pair of quote characters that bounds it, if any
StripEnclosing(value) ==
    IF Len(value) >= 2 /\ value[1] \in Quotes /\ value[Len(value)] = value[1]
    THEN SubSeq(value, 2, Len(value) - 1)
    ELSE value

\* C16: parseShellConfig strips the quote characters from an alias or
\* export value only when they bound the whole value; a value with a quote
\* character at one end only, or with quotes inside an enclosing pair,
\* keeps those characters
C16_QuotesStrippedOnlyWhenEnclosing ==
    \A shell \in DOMAIN data.ShellConfigs :
        LET lines == ScannedLines(shell)
            config == data.ShellConfigs[shell]
        IN  /\ \A name \in DOMAIN config.Aliases :
                  config.Aliases[name] = StripEnclosing(WrittenValue(
                      lines[LastDeclaration(lines, <<"a", "l", "i", "a", "s", " ">>, name)], <<"a", "l", "i", "a", "s", " ">>))
            /\ \A name \in DOMAIN config.Environment :
                  config.Environment[name] = StripEnclosing(WrittenValue(
                      lines[LastDeclaration(lines, <<"e", "x", "p", "o", "r", "t", " ">>, name)], <<"e", "x", "p", "o", "r", "t", " ">>))

\* the line is alias NAME='VALUE' or alias NAME="VALUE" with the "=" at
\* position eq, a NAME without blanks and a VALUE without quote characters
QuotedAlias(line, eq) ==
    /\ HasPrefix(line, <<"a", "l", "i", "a", "s", " ">>)
    /\ eq > Len(<<"a", "l", "i", "a", "s", " ">>) + 1
    /\ Len(line) >= eq + 2
    /\ line[eq] = "="
    /\ \A j \in (Len(<<"a", "l", "i", "a", "s", " ">>) + 1)..(eq - 1) : line[j] \notin {"=", " ", "\t"}
    /\ line[eq + 1] \in Quotes
    /\ line[Len(line)] = line[eq + 1]
    /\ \A j \in (eq + 2)..(Len(line) - 1) : line[j] \notin Quotes

\* C17: for a config line alias NAME='VALUE' or alias NAME="VALUE" whose
\* VALUE holds no quote character, parseShellConfig leaves Aliases[NAME]
\* equal to VALUE (unless a later line declares NAME again)
C17_QuotedAliasRoundTrip ==
    \A shell \in DOMAIN data.ShellConfigs :
        LET lines == ScannedLines(shell)
            config == data.ShellConfigs[shell]
        IN  \A i \in DOMAIN lines :
            \A eq \in DOMAIN lines[i] :
                LET NAME == SubSeq(lines[i], Len(<<"a", "l", "i", "a", "s", " ">>) + 1, eq - 1)
                    VALUE == SubSeq(lines[i], eq + 2, Len(lines[i]) - 1)
                IN  (QuotedAlias(lines[i], eq)
                        /\ \A j \in DeclarationsOf(lines, <<"a", "l", "i", "a", "s", " ">>, NAME) : j <= i)
                    => /\ NAME \in DOMAIN config.Aliases
                       /\ config.Aliases[NAME] = VALUE

\* C17 witness: the config files of an analyzed shell hold alias ll='ls -la'
\* as the last declaration of ll, and a declaration in double quotes whose
\* value has blanks at its ends
C17_Witness ==
    \E shell \in DOMAIN data.ShellConfigs :
        LET lines == ScannedLines(shell)
        IN  /\ DeclarationsOf(lines, <<"a", "l", "i", "a", "s", " ">>, <<"l", "l">>) # {}
            /\ lines[LastDeclaration(lines, <<"a", "l", "i", "a", "s", " ">>, <<"l", "l">>)] = <<"a", "l", "i", "a", "s", " ", "l", "l", "=", "'", "l", "s", " ", "-", "l", "a", "'">>
            /\ \E i \in DOMAIN lines : lines[i] = <<"a", "l", "i", "a", "s", " ", "l", "l", "=", "\"", " ", "l", "s", " ", "\"">>
            /\ data.ShellConfigs[shell].Aliases[<<"l", "l">>] = <<"l", "s", " ", "-", "l", "a">>

\* C18: when an alias or an exported variable is declared several times in
\* the config files of a shell, analyzeShellConfigs leaves the value of the
\* last declaration in scan order (files in their listed order, lines top
\* to bottom)
C18_LastDeclarationWins ==
    \A shell \in DOMAIN data.ShellConfigs :
        LET lines == ScannedLines(shell)
            config == data.ShellConfigs[shell]
        IN  /\ DOMAIN config.Aliases = DeclaredNames(lines, <<"a", "l", "i", "a", "s", " ">>)
            /\ DOMAIN config.Environment = DeclaredNames(lines, <<"e", "x", "p", "o", "r", "t", " ">>)
            /\ \A name \in DOMAIN config.Aliases :
                  config.Aliases[name] = Trim(WrittenValue(
                      lines[LastDeclaration(lines, <<"a", "l", "i", "a", "s", " ">>, name)], <<"a", "l", "i", "a", "s", " ">>), Quotes)
            /\ \A name \in DOMAIN config.Environment :
                  config.Environment[name] = Trim(WrittenValue(
                      lines[LastDeclaration(lines, <<"e", "x", "p", "o", "r", "t", " ">>, name)], <<"e", "x", "p", "o", "r", "t", " ">>), Quotes)

\* the keyword's declarations of `name` in the lines give two or more values
DeclaredTwice(lines, keyword, name) ==
    \E i, j \in DeclarationsOf(lines, keyword, name) :
        Trim(WrittenValue(lines[i], keyword), Quotes)
            # Trim(WrittenValue(lines[j], keyword), Quotes)

\* C18 witness: an analyzed shell has three config files; an alias is
\* declared with different values twice in the first and again in the
\* second, and an exported variable with different values in the second
\* and in the third
C18_Witness ==
    \E shell \in DOMAIN data.ShellConfigs :
        LET first == Stat(expandPath(configPaths[shell][1], home), configs)
            second == Stat(expandPath(configPaths[shell][2], home), configs)
            third == Stat(expandPath(configPaths[shell][3], home), configs)
        IN  /\ first.exists /\ second.exists /\ third.exists
            /\ \E name \in DOMAIN data.ShellConfigs[shell].Aliases :
                  /\ DeclaredTwice(first.lines, <<"a", "l", "i", "a", "s", " ">>, name)
                  /\ \E i \in DeclarationsOf(second.lines, <<"a", "l", "i", "a", "s", " ">>, name) :
                        Trim(WrittenValue(second.lines[i], <<"a", "l", "i", "a", "s", " ">>), Quotes)
                            = data.ShellConfigs[shell].Aliases[name]
            /\ \E name \in DOMAIN data.ShellConfigs[shell].Environment :
                  /\ DeclaredTwice(second.lines \o third.lines, <<"e", "x", "p", "o", "r", "t", " ">>, name)
                  /\ DeclarationsOf(third.lines, <<"e", "x", "p", "o", "r", "t", " ">>, name) # {}

(***************************************************************************)
(* Claims about the history files and the home directory.                  *)
(***************************************************************************)
\* readHistory returns an error for the shell: the file is missing, or a
\* line is too long for the scanner
Unreadable(shell) == ~files[shell].exists \/ files[shell].tooLong

\* C19: a shell whose history file is missing or unreadable is absent from
\* Histories and from ShellConfigs, and the run goes on; a shell whose file
\* exists and is empty is in Histories with zero entries; Histories and
\* ShellConfigs always have the same shell keys
C19_MissingShellAbsentEmptyShellPresent ==
    /\ DOMAIN data.Histories = DOMAIN data.ShellConfigs
    /\ \A shell \in Shells \ pending :
          /\ Unreadable(shell) =>
                shell \notin DOMAIN data.Histories \cup DOMAIN data.ShellConfigs
          /\ ~Unreadable(shell) =>
                /\ shell \in DOMAIN data.Histories
                /\ files[shell].lines = <<>> => data.Histories[shell] = <<>>

\* C19 witness: AnalyzeShells has returned on a host where one history
\* file is missing, one has a line that is too long and one is empty
C19_Witness ==
    /\ Done
    /\ \E missing, long, empty \in Shells :
          /\ ~files[missing].exists
          /\ files[long].exists /\ files[long].tooLong
          /\ files[empty].exists /\ ~files[empty].tooLong
          /\ files[empty].lines = <<>>
          /\ data.Histories = (empty :> <<>>)

\* C20: if the home directory of the user cannot be resolved, the run
\* aborts instead of completing and returning a ShellData
C20_NoHomeDirAborts ==
    Done => home.ok

(***************************************************************************)
(* Claims about the contents of the timeline.                              *)
(***************************************************************************)
\* the test of the specification: the command starts with an allowlisted
\* tool name, or holds one of | > < & ;, or is one of the listed typos
PassesTest(command) ==
    \/ \E name \in Range(interestingCommands) : HasPrefix(command, name)
    \/ \E i \in DOMAIN command : command[i] \in {"|", ">", "<", "&", ";"}
    \/ command \in Range(commonTypos)

\* the commands of the histories of d
CommandsIn(d) ==
    UNION {{d.Histories[shell][i].Command : i \in DOMAIN d.Histories[shell]} :
            shell \in DOMAIN d.Histories}

\* C23: every entry GenerateTimelineData returns has a command that passes
\* the test, and when fewer than 15 entries are returned every command of
\* any history that passes the test is in the result exactly once
C23_TimelineHoldsTheInteresting ==
    calls > 0 =>
        /\ \A i \in DOMAIN timelineData : PassesTest(timelineData[i].Command)
        /\ Len(timelineData) < TimelineCap =>
              \A command \in CommandsIn(data) :
                  PassesTest(command) =>
                      Cardinality({i \in DOMAIN timelineData :
                                    timelineData[i].Command = command}) = 1

\* C23 witness: a call has returned fewer than 15 entries for two shells
\* that share a command with a metacharacter; one history also holds a
\* command that does not pass the test
C23_Witness ==
    /\ calls > 0
    /\ Len(timelineData) \in 1..(TimelineCap - 1)
    /\ Cardinality(DOMAIN data.Histories) >= 2
    /\ \E command \in CommandsIn(data) : ~PassesTest(command)
    /\ \E command \in CommandsIn(data) :
          /\ ContainsAny(command, <<"|", ">", "<", "&", ";">>)
          /\ \A shell \in DOMAIN data.Histories :
                \E i \in DOMAIN data.Histories[shell] :
                    data.Histories[shell][i].Command = command

\* the entries of the histories in the scan order `order`, with their shell
RECURSIVE ScanOrder(_, _)
ScanOrder(Histories, order) ==
    IF order = <<>> THEN <<>>
    ELSE [i \in DOMAIN Histories[Head(order)] |->
            [Timestamp |-> Histories[Head(order)][i].Timestamp,
             Command |-> Histories[Head(order)][i].Command,
             Shell |-> Head(order)]]
         \o ScanOrder(Histories, Tail(order))

\* the positions of the first occurrences of the commands that pass the test
FirstOccurrences(scan) ==
    {i \in DOMAIN scan :
        /\ PassesTest(scan[i].Command)
        /\ \A j \in 1..(i - 1) : scan[j].Command # scan[i].Command}

\* the k-th smallest position of the set
RECURSIVE Nth(_, _)
Nth(positions, k) ==
    LET least == CHOOSE i \in positions : \A j \in positions : i <= j
    IN  IF k = 1 THEN least ELSE Nth(positions \ {least}, k - 1)

\* the first 15 distinct interesting entries of the scan
FirstDistinct(scan) ==
    LET positions == FirstOccurrences(scan)
        n == IF Cardinality(positions) < TimelineCap
             THEN Cardinality(positions) ELSE TimelineCap
    IN  [k \in 1..n |-> scan[Nth(positions, k)]]

\* C26: the result of GenerateTimelineData is the first 15 distinct
\* interesting commands in the order of the scan (fewer if fewer exist),
\* each with the timestamp and the shell of its first occurrence; no entry
\* after the 15th collected one changes it
C26_FirstFifteenInScanOrder ==
    calls > 0 =>
        \E order \in Perms(DOMAIN data.Histories) :
            timelineData = FirstDistinct(ScanOrder(data.Histories, order))

\* C26 witness: a call has returned 15 entries; the histories hold more
\* distinct interesting commands than that, and a shell none of whose
\* entries is in the result holds some of them
C26_Witness ==
    /\ calls > 0
    /\ Len(timelineData) = TimelineCap
    /\ Cardinality({c \in CommandsIn(data) : PassesTest(c)}) > TimelineCap
    /\ \E shell \in DOMAIN data.Histories :
          /\ \A i \in DOMAIN timelineData : timelineData[i].Shell # shell
          /\ \E i \in DOMAIN data.Histories[shell] :
                /\ PassesTest(data.Histories[shell][i].Command)
                /\ \A j \in DOMAIN timelineData :
                      timelineData[j].Command # data.Histories[shell][i].Command

(***************************************************************************)
(* Claims about the categories of a command.                               *)
(***************************************************************************)
\* the categories one of whose prefixes starts the command
MatchingCategories(cmd) ==
    {category \in DOMAIN patterns :
        \E prefix \in Range(patterns[category]) : HasPrefix(cmd, prefix)}

\* the entries of the histories of d
EntriesIn(d) ==
    UNION {Range(d.Histories[shell]) : shell \in DOMAIN d.Histories}

\* C28: the categories categorizeCommand gives a command are exactly the
\* categories one of whose prefixes starts the command, each of them once,
\* and none when no prefix matches
C28_CategoriesAreThePrefixMatches ==
    \A entry \in EntriesIn(data) :
        /\ Range(entry.Categories) = MatchingCategories(entry.Command)
        /\ Len(entry.Categories) = Cardinality(MatchingCategories(entry.Command))

\* C28 witness: the histories hold a command of each category and a command
\* of none that has a prefix of a category further on
C28_Witness ==
    /\ \A category \in DOMAIN patterns :
          \E entry \in EntriesIn(data) : entry.Categories = <<category>>
    /\ \E entry \in EntriesIn(data) :
          /\ entry.Categories = <<>>
          /\ \E category \in DOMAIN patterns :
                \E prefix \in Range(patterns[category]) :
                    Contains(entry.Command, prefix)

(***************************************************************************)
(* Claims about the peak hours.                                            *)
(***************************************************************************)
\* C27: getPeakHours returns min(3, number of hours in the map) hours of
\* the map, pairwise distinct and in 0..23, in an order of non-increasing
\* count, and no hour it leaves out has a larger count than one it returns
C27_PeakHoursAreTheTopThree ==
    pc = "peaks" =>
        LET peaks == data.Insights.WorkPatterns.PeakHours
            timeOfDay == call.timeOfDay
            present == DOMAIN timeOfDay
        IN  /\ Len(peaks) = IF Cardinality(present) < 3
                            THEN Cardinality(present) ELSE 3
            /\ \A i \in DOMAIN peaks : peaks[i] \in present \cap 0..23
            /\ \A i, j \in DOMAIN peaks : i # j => peaks[i] # peaks[j]
            /\ \A i, j \in DOMAIN peaks :
                  i < j => timeOfDay[peaks[i]] >= timeOfDay[peaks[j]]
            /\ \A left \in present \ Range(peaks) :
                  \A kept \in Range(peaks) : timeOfDay[left] <= timeOfDay[kept]

\* C27 witness: three hours are returned for a map of more than three hours
\* with different counts, and an hour left out ties with one returned
C27_Witness ==
    /\ pc = "peaks"
    /\ Len(data.Insights.WorkPatterns.PeakHours) = 3
    /\ Cardinality(DOMAIN call.timeOfDay) > 3
    /\ \E h, k \in Range(data.Insights.WorkPatterns.PeakHours) :
          call.timeOfDay[h] > call.timeOfDay[k]
    /\ \E left \in DOMAIN call.timeOfDay
                    \ Range(data.Insights.WorkPatterns.PeakHours) :
          \E kept \in Range(data.Insights.WorkPatterns.PeakHours) :
              call.timeOfDay[left] = call.timeOfDay[kept]

(***************************************************************************)
(* Claims about the installed-tool candidates.                             *)
(***************************************************************************)
\* the tallies of the latest per-shell pass and of the tool-usage pass are
\* those of the candidate set S
TalliedOver(S) ==
    /\ call.made => call.langUsage = LangUsage(call.entries, S)
    /\ \E order \in Perms(DOMAIN data.Histories) :
          data.Insights.ToolUsage.Languages
              = LangUsage(AllEntries(data.Histories, order), S)

\* C22: one run of AnalyzeShells settles the set of installed candidates
\* once, and every classification pass of the run (the pass of each shell,
\* the tool-usage pass) tallies over that same set, also on a host with
\* more than ten installed tools
C22_OneCandidateSetPerRun ==
    Done => \E S \in getInstalledLanguages(Probed(onPath)) : TalliedOver(S)

(***************************************************************************)
(* Claims about the reproducibility of the insights.                       *)
(***************************************************************************)
\* the ShellData that one call analyzeCommands(history, &d) can leave
PassesOver(history, d) ==
    UNION {UNION {UNION {
        {analyzeCommands(history, d, installedLangs, primary, techStack, peaks) :
            peaks \in getPeakHours(TimeOfDay(history))} :
          techStack \in TechStacks(installedLangs,
                                   LangUsage(history, installedLangs))} :
          primary \in getMostUsed(LangUsage(history, installedLangs))} :
          installedLangs \in getInstalledLanguages(Probed(onPath))}

\* the ShellData that the loop of AnalyzeShells can leave when it visits
\* the shells of `order`, in that order, with the histories it has read
RECURSIVE AnalyzedIn(_, _)
AnalyzedIn(order, d) ==
    IF order = <<>> THEN {d}
    ELSE UNION {AnalyzedIn(Tail(order), after) :
                    after \in PassesOver(data.Histories[Head(order)], d)}

\* C25: the technical profile and the work patterns that AnalyzeShells
\* returns are the same for every order in which the detected shells are
\* processed and every enumeration order of the usage maps: every run on
\* the same histories and host ends with the same Insights
C25_InsightsSameInEveryOrder ==
    Done =>
        \A order \in Perms(DOMAIN data.Histories) :
            \A other \in AnalyzedIn(order, InitShellData) :
                /\ other.Insights.TechnicalProfile
                        = data.Insights.TechnicalProfile
                /\ other.Insights.WorkPatterns = data.Insights.WorkPatterns

(***************************************************************************)
(* Claims about the interface: Update, View and the corpus summary.        *)
(***************************************************************************)
\* C21: when Update handles the ShellData message and GenerateWrapped
\* fails, the model it returns has loading = false, shellData equal to the
\* message, timelineData equal to GenerateTimelineData of the message, err
\* equal to the failure and the sections it had before
C21_FailedNarrativeKeepsProfile ==
    [][(calls' = calls + 1 /\ wrapped'.err # NilError) =>
            /\ model'.loading = FALSE
            /\ model'.shellData = data
            /\ timelineData' \in GenerateTimelineData(data)
            /\ model'.err = wrapped'.err
            /\ model'.err # NilError
            /\ model'.sections = model.sections
            /\ model'.currentSectionIndex = model.currentSectionIndex]_vars

\* C21 witness: the narrative has failed for a second ShellData message; the
\* slides of the first are still there, with the profile and the timeline
C21_Witness ==
    /\ calls = 2
    /\ wrapped.made
    /\ wrapped.err # NilError
    /\ model.err = wrapped.err
    /\ Len(model.sections) > 1
    /\ model.currentSectionIndex > 0
    /\ ~model.loading
    /\ model.shellData = data
    /\ DOMAIN data.Histories # {}
    /\ Len(timelineData) > 0

\* the lines of a text, each without its line feed
RECURSIVE LinesOf(_)
LinesOf(text) ==
    IF text = <<>> THEN <<>>
    ELSE LET end == CHOOSE i \in 1..(Len(text) + 1) :
                        /\ i = Len(text) + 1 \/ text[i] = "\n"
                        /\ \A j \in 1..(i - 1) : text[j] # "\n"
         IN  <<SubSeq(text, 1, end - 1)>> \o LinesOf(SubSeq(text, end + 1, Len(text)))

\* the number that a string of decimal digits writes; -1 for any other
\* string and for a number written with a leading zero
RECURSIVE Decimal(_)
Decimal(digits) ==
    LET value(c) == CHOOSE v \in 0..9 :
                        <<"0", "1", "2", "3", "4", "5", "6", "7", "8", "9">>[v + 1] = c
        isDigit(c) == c \in {"0", "1", "2", "3", "4", "5", "6", "7", "8", "9"}
    IN  IF digits = <<>> \/ \E i \in DOMAIN digits : ~isDigit(digits[i]) THEN -1
        ELSE IF Len(digits) > 1 /\ digits[1] = "0" THEN -1
        ELSE IF Len(digits) = 1 THEN value(digits[1])
        ELSE 10 * Decimal(SubSeq(digits, 1, Len(digits) - 1))
                + value(digits[Len(digits)])

\* line is exactly "Shell: <name>, Commands: <count>"
IsShellLine(line, name, count) ==
    LET start == <<"S", "h", "e", "l", "l", ":", " ">> \o name \o <<",", " ", "C", "o", "m", "m", "a", "n", "d", "s", ":", " ">>
    IN  /\ HasPrefix(line, start)
        /\ Decimal(SubSeq(line, Len(start) + 1, Len(line))) = count

\* one of the lines starts with heading
HasSection(lines, heading) ==
    \E i \in DOMAIN lines : HasPrefix(lines[i], heading)

\* C24: the string ShellDataToString gives for a ShellData with k shells
\* begins with k lines, one per shell, each exactly
\* "Shell: <name>, Commands: <count>" with the length of that shell's
\* history as count, and no other line is such a line; the sections Tech
\* Stack, Peak Hours, Productivity Metrics and Editors are there only when
\* their data is non-empty
C24_SummaryBlockAndSections ==
    wrapped.made =>
        LET d == model.shellData
            lines == LinesOf(wrapped.data)
            k == Cardinality(DOMAIN d.Histories)
        IN  /\ Len(lines) >= k
            /\ \E order \in Perms(DOMAIN d.Histories) :
                  \A i \in 1..k :
                      IsShellLine(lines[i], ShellName(order[i]),
                                  Len(d.Histories[order[i]]))
            /\ \A i \in (k + 1)..Len(lines) : ~HasPrefix(lines[i], <<"S", "h", "e", "l", "l", ":", " ">>)
            /\ HasSection(lines, <<"T", "e", "c", "h", " ", "S", "t", "a", "c", "k", ":", " ">>)
                  => Len(d.Insights.TechnicalProfile.TechStack) > 0
            /\ HasSection(lines, <<"P", "e", "a", "k", " ", "H", "o", "u", "r", "s", ":", " ">>)
                  => Len(d.Insights.WorkPatterns.PeakHours) > 0
            /\ HasSection(lines, <<"P", "r", "o", "d", "u", "c", "t", "i", "v", "i", "t", "y", " ", "M", "e", "t", "r", "i", "c", "s", ":">>)
                  => DOMAIN d.Insights.WorkPatterns.Productivity # {}
            /\ HasSection(lines, <<"E", "d", "i", "t", "o", "r", "s", ":">>)
                  => DOMAIN d.Insights.ToolUsage.Editors # {}

\* C24 witness: the summary of two shells, of three and of one command,
\* with the first three sections and, no editor being used, without the
\* last
C24_Witness ==
    /\ wrapped.made
    /\ Cardinality(DOMAIN model.shellData.Histories) = 2
    /\ \E shell \in DOMAIN model.shellData.Histories :
          Len(model.shellData.Histories[shell]) = 3
    /\ DOMAIN model.shellData.Insights.ToolUsage.Editors = {}
    /\ LET lines == LinesOf(wrapped.data)
       IN  /\ HasSection(lines, <<"T", "e", "c", "h", " ", "S", "t", "a", "c", "k", ":", " ">>)
           /\ HasSection(lines, <<"P", "e", "a", "k", " ", "H", "o", "u", "r", "s", ":", " ">>)
           /\ HasSection(lines, <<"P", "r", "o", "d", "u", "c", "t", "i", "v", "i", "t", "y", " ", "M", "e", "t", "r", "i", "c", "s", ":">>)
           /\ ~HasSection(lines, <<"E", "d", "i", "t", "o", "r", "s", ":">>)

\* C29: whatever key messages and ShellData messages Update has handled,
\* activeTab is an index of tabs and, when there are sections,
\* currentSectionIndex is an index of sections
C29_IndicesStayInRange ==
    /\ model.activeTab \in 0..(Len(tabs) - 1)
    /\ Len(model.sections) > 0 =>
          model.currentSectionIndex \in 0..(Len(model.sections) - 1)

\* C29 witness: on the Wrapped tab, the last of three slides is shown after
\* a second ShellData message whose narrative failed
C29_Witness ==
    /\ tabs[model.activeTab + 1] = "Wrapped"
    /\ Len(model.sections) = 3
    /\ model.currentSectionIndex = 2
    /\ calls = 2
    /\ wrapped.err # NilError
    /\ pc = "done"

\* C30: every bar that RenderTechProfile, RenderWorkPatterns and
\* RenderToolUsage draw for a profile the analyzer has produced has a
\* filled width in 0..20, and View does not abort
C30_BarsFitTheirTrack ==
    /\ ~model.loading =>
          \A bars \in TechProfileBars(model.shellData.Insights.TechnicalProfile)
                \cup WorkPatternsBars(model.shellData.Insights.WorkPatterns)
                \cup ToolUsageBars(model.shellData.Insights.ToolUsage) :
              0 <= bars /\ bars <= 20
    /\ pc # "panic"
=============================================================================
